---- MODULE Spec2Model ----
(***************************************************************************)
(* TolimaGO client-side authentication session lifecycle.                  *)
(*                                                                         *)
(*   services/secure-storage.ts  SecureTokenStorage (four SecureStore keys) *)
(*   services/http-client.ts     HttpClient (request/response interceptors,*)
(*                               isRefreshing / failedQueue refresh cycle) *)
(*   services/auth-service.ts    AuthService (login, logout, refreshTokens,*)
(*                               getCurrentUser, verifySession)            *)
(*   context/auth-context.tsx    authReducer and the AuthProvider actions  *)
(*                                                                         *)
(* JavaScript runs one task at a time: every action below is the code that *)
(* runs between two suspension points (an await on a network call or on a  *)
(* SecureStore call), with the promise reactions it triggers.              *)
(***************************************************************************)
EXTENDS Integers, Sequences, FiniteSets, TLC

\* Number of requests callers send through the axios instance.
NumReq == 2
\* Number of token pairs the backend mints (login / refresh), beyond the
\* pair a session may start with.
MaxTok == 2

VARIABLES
  store,         \* SecureStore: the four TOKEN_KEYS entries
  isRefreshing,  \* HttpClient.isRefreshing
  failedQueue,   \* HttpClient.failedQueue (request ids, in push order)
  pc,            \* per request: where its promise chain stands
  retry,         \* per request: originalRequest._retry
  hdr,           \* per request: config.headers.Authorization (0: none)
  err,           \* per request: the value its promise rejected with
  body,          \* per request: response.data.success of a 2xx response
  refreshToken,  \* interceptor local: refreshToken (line 100)
  newTokens,     \* interceptor local: newTokens (line 105)
  refreshError,  \* interceptor local: refreshError (line 114)
  nextTok,       \* backend: the next token pair it will mint
  defaultAuth,   \* axiosInstance.defaults.headers.common.Authorization
  svc,           \* the AuthService / AuthProvider call in progress
  ctx,           \* AuthProvider reducer state
  nav,           \* last router.replace target
  interval,      \* AuthProvider: auto-refresh intervals currently armed
  wasQueued,     \* history: the request has sat in failedQueue
  relTok,        \* history: token the request was last replayed with
  cyc,           \* history: the current (or last) refresh cycle
  calls,         \* history: network calls made by the AuthService call
  state,         \* useApiMutation: the hook's React state
  rendered,      \* useApiMutation: the state the last render's closures hold
  cancelRef,     \* useApiMutation: cancelRef.current
  retryOption,   \* useApiMutation: options.retry
  retryDelay,    \* useApiMutation: options.retryDelay
  inv,           \* per mutate() call: its position, and history of its calls
  now,           \* Date.now(), in milliseconds
  expiryItem,    \* the TOKEN_EXPIRY item as the text SecureStore holds
  storedExpiry,  \* history: the number setTokens computed for that item
  answer,        \* history: the last SecureTokenStorage call and its result
  advances,      \* history: how many times the clock has advanced
  timeouts,           \* useAuth: the setTimeout callbacks pending
  refreshTimeoutRef,  \* useAuth: refreshTimeoutRef.current (0: null)
  sessionTimeoutRef,  \* useAuth: sessionTimeoutRef.current (0: null)
  authHook,           \* useAuth: mounted, calls in flight, next timer id
  activity,           \* per updateActivity() call: its position
  segments,           \* useSegments()[0]
  guard,              \* the route guard mounted
  effectDeps,         \* the dependencies the guard's effect last ran with
  isNavigating,       \* useProtectedRoute: isNavigating
  navigateTimeout,    \* useProtectedRoute: the armed timeout's closure
  effectCleanup,      \* useProtectedRoute: the last run returned a cleanup
  redirect            \* history: the last router.replace of a guard

sessionVars == << store, isRefreshing, failedQueue, pc, retry, hdr, err, body,
                  refreshToken, newTokens, refreshError, nextTok, defaultAuth,
                  svc, ctx, nav, interval, wasQueued, relTok, cyc, calls >>

hookVars == << state, rendered, cancelRef, retryOption, retryDelay, inv >>

clockVars == << now, expiryItem, storedExpiry, answer, advances >>

timerVars == << timeouts, refreshTimeoutRef, sessionTimeoutRef, authHook,
               activity >>

guardVars == << segments, guard, effectDeps, isNavigating, navigateTimeout,
               effectCleanup, redirect >>

vars == << sessionVars, hookVars, clockVars, timerVars, guardVars >>

httpVars == << isRefreshing, failedQueue, pc, retry, hdr, err, body,
               refreshToken, newTokens, refreshError, wasQueued, relTok, cyc >>

\* Requests sent by application code, and the one AuthService sends.
AppReq == 1 .. NumReq
SvcReq == NumReq + 1
Req == 1 .. (NumReq + 1)

(***************************************************************************)
(* Secure token store                                                      *)
(***************************************************************************)
TOKEN_KEYS == {"access", "refresh", "expiry", "user"}

EmptyStore == [access |-> 0, refresh |-> 0, expiry |-> "none", user |-> 0]

\* A store as login/register/refresh leaves it: token pair t, expiry e.
SessionStore(t, e) == [access |-> t, refresh |-> t, expiry |-> e, user |-> 1]

\* SecureStore.getItemAsync either yields the stored value or throws; the
\* getters catch and return null.
getAccessToken == {store.access, 0}
getRefreshToken == {store.refresh, 0}

\* hasStoredTokens: both reads, !!(accessToken && refreshToken).
hasStoredTokens == {a # 0 /\ r # 0 : a \in getAccessToken, r \in getRefreshToken}

\* The stored expiry against the clock: "fresh" is five minutes or more
\* away, "soon" less than five minutes but more than the 60 s buffer,
\* "expired" within the buffer or past; "none" is no expiry stored.
\* isTokenExpired: no expiry, now + bufferTime >= expiry, or a read that throws.
isTokenExpired == {store.expiry \notin {"fresh", "soon"}, TRUE}

\* getTimeUntilExpiry < 5 (minutes); a missing expiry or a read that throws
\* counts as 0 minutes.
shouldRefreshToken == {store.expiry # "fresh", TRUE}

\* setTokens issues three writes under Promise.all; w is the set of keys
\* whose write succeeded.  An expiry computed from expiresIn lies past the
\* 60 s buffer.
TokenKeys == {"access", "refresh", "expiry"}
WriteTokens(s, t, w) ==
  [s EXCEPT !.access = IF "access" \in w THEN t ELSE @,
            !.refresh = IF "refresh" \in w THEN t ELSE @,
            !.expiry = IF "expiry" \in w THEN "fresh" ELSE @]

setTokensOk(w) == w = TokenKeys

\* clearAll: four deletes, each failure swallowed; never throws.
clearAll == EmptyStore

(***************************************************************************)
(* Errors                                                                  *)
(***************************************************************************)
NoError == [kind |-> "none", status |-> 0, message |-> "", code |-> ""]
\* An axios error that carries a response (error.response).
AxiosResponseError(status, message) ==
  [kind |-> "response", status |-> status, message |-> message, code |-> "SERVER"]
\* An axios error without a response (error.request only).
AxiosNetworkError ==
  [kind |-> "request", status |-> 0, message |-> "Network Error", code |-> "ERR_NETWORK"]
\* new Error(msg)
PlainError(msg) == [kind |-> "plain", status |-> 0, message |-> msg, code |-> ""]

Unauthorized == AxiosResponseError(401, "Unauthorized")

\* HttpClient.handleError
handleError(e) ==
  IF e.kind = "response"
  THEN [kind |-> "api", status |-> e.status, message |-> e.message, code |-> e.code]
  ELSE IF e.kind = "request"
  THEN [kind |-> "api", status |-> 0,
        message |-> "Network error - please check your connection",
        code |-> "NETWORK_ERROR"]
  ELSE [kind |-> "api", status |-> 0, message |-> e.message, code |-> "UNKNOWN_ERROR"]

(***************************************************************************)
(* HTTP client                                                             *)
(***************************************************************************)
QueuedSet == {failedQueue[i] : i \in DOMAIN failedQueue}

\* processQueue(token, error) with the .then of each queued promise
\* (lines 87-93): a rejected entry propagates the error, a resolved entry
\* with a token sets the header and replays, one without rejects with its
\* own 401 error.
QueuedPc(token, error) ==
  IF error # NoError THEN "rejected"
  ELSE IF token # 0 THEN "reqInt" ELSE "rejected"

QueuedErr(token, error) ==
  IF error # NoError THEN error
  ELSE IF token # 0 THEN NoError ELSE Unauthorized

processQueue(token, error, r, rpc, rerr) ==
  /\ pc' = [q \in Req |-> IF q = r THEN rpc
                          ELSE IF q \in QueuedSet THEN QueuedPc(token, error)
                          ELSE pc[q]]
  /\ err' = [q \in Req |-> IF q = r THEN rerr
                           ELSE IF q \in QueuedSet THEN QueuedErr(token, error)
                           ELSE err[q]]
  /\ hdr' = [q \in Req |-> IF error = NoError /\ token # 0 /\ (q = r \/ q \in QueuedSet)
                           THEN token ELSE hdr[q]]
  /\ relTok' = [q \in Req |-> IF error = NoError /\ token # 0 /\ (q = r \/ q \in QueuedSet)
                              THEN token ELSE relTok[q]]
  /\ failedQueue' = << >>

\* Application code sends a request: axiosInstance.get/post/... (lines 191-232).
Send(r) ==
  /\ r \in AppReq
  /\ pc[r] = "idle"
  /\ pc' = [pc EXCEPT ![r] = "reqInt"]
  /\ UNCHANGED << store, isRefreshing, failedQueue, retry, hdr, err, body,
                  refreshToken, newTokens, refreshError, nextTok, defaultAuth,
                  svc, ctx, nav, interval, hookVars, clockVars, timerVars, guardVars, wasQueued, relTok, cyc, calls >>

\* Request interceptor (lines 62-69): the token is read from the store when
\* the request (or its replay) goes out.
RequestInterceptor(r) ==
  /\ pc[r] = "reqInt"
  /\ \E token \in getAccessToken :
       hdr' = [hdr EXCEPT ![r] = IF token # 0 THEN token ELSE @]
  /\ pc' = [pc EXCEPT ![r] = "sent"]
  /\ UNCHANGED << store, isRefreshing, failedQueue, retry, err, body,
                  refreshToken, newTokens, refreshError, nextTok, defaultAuth,
                  svc, ctx, nav, interval, hookVars, clockVars, timerVars, guardVars, wasQueued, relTok, cyc, calls >>

\* The backend answers 2xx (line 77).
Bodies(r) == IF r = SvcReq THEN {"ok", "flagFalse"} ELSE {"ok"}

Respond2xx(r) ==
  /\ pc[r] = "sent"
  /\ \E b \in Bodies(r) : body' = [body EXCEPT ![r] = b]
  /\ pc' = [pc EXCEPT ![r] = "resolved"]
  /\ UNCHANGED << store, isRefreshing, failedQueue, retry, hdr, err,
                  refreshToken, newTokens, refreshError, nextTok, defaultAuth,
                  svc, ctx, nav, interval, hookVars, clockVars, timerVars, guardVars, wasQueued, relTok, cyc, calls >>

\* A non-401 failure, or no response at all (line 126).
RespondError(r) ==
  /\ pc[r] = "sent"
  /\ \E e \in {AxiosResponseError(500, "Internal error"), AxiosNetworkError} :
       err' = [err EXCEPT ![r] = handleError(e)]
  /\ pc' = [pc EXCEPT ![r] = "rejected"]
  /\ UNCHANGED << store, isRefreshing, failedQueue, retry, hdr, body,
                  refreshToken, newTokens, refreshError, nextTok, defaultAuth,
                  svc, ctx, nav, interval, hookVars, clockVars, timerVars, guardVars, wasQueued, relTok, cyc, calls >>

\* The branch the response interceptor takes on a 401 (lines 82-97).
On401(r) ==
  IF retry[r] THEN "reject"
  ELSE IF isRefreshing THEN "queue"
  ELSE "refresh"

\* The backend answers 401: the synchronous part of the response
\* interceptor's error handler (lines 78-100, 126).
Respond401(r) ==
  /\ pc[r] = "sent"
  /\ LET branch == On401(r) IN
     /\ pc' = [pc EXCEPT ![r] = CASE branch = "reject" -> "rejected"
                                  [] branch = "queue" -> "queued"
                                  [] OTHER -> "awaitRefreshToken"]
     /\ err' = [err EXCEPT ![r] = IF branch = "reject"
                                  THEN handleError(Unauthorized) ELSE @]
     /\ failedQueue' = IF branch = "queue" THEN Append(failedQueue, r) ELSE failedQueue
     /\ retry' = [retry EXCEPT ![r] = IF branch = "refresh" THEN TRUE ELSE @]
     /\ isRefreshing' = IF branch = "refresh" THEN TRUE ELSE isRefreshing
     /\ wasQueued' = [wasQueued EXCEPT ![r] = IF branch = "queue" THEN TRUE ELSE @]
     /\ relTok' = [relTok EXCEPT ![r] = IF branch = "reject" THEN @ ELSE 0]
     /\ cyc' = CASE branch = "refresh" ->
                      [members |-> {r}, calls |-> 0, outcome |-> "running",
                       released |-> << >>]
                 [] branch = "queue" ->
                      [cyc EXCEPT !.members = @ \cup {r}]
                 [] OTHER -> cyc
  /\ UNCHANGED << store, hdr, body, refreshToken, newTokens, refreshError,
                  nextTok, defaultAuth, svc, ctx, nav, interval, hookVars, clockVars, timerVars, guardVars, calls >>

\* catch (refreshError) up to its await (lines 114-117): the queue is
\* processed with the error, then clearAll is awaited.
CatchRefresh(r, e) ==
  /\ processQueue(0, e, r, "awaitClearAll", err[r])
  /\ refreshError' = e

\* Variant: the refresh endpoint is called with whatever was read.
NoRefreshTokenIgnored(rt) == FALSE

\* if (!refreshToken) (line 101).
NoRefreshToken(rt) == rt = 0

\* Line 100-103 resumes: the refresh token has been read.
RefresherReadToken(r) ==
  /\ pc[r] = "awaitRefreshToken"
  /\ \E rt \in getRefreshToken :
       IF NoRefreshToken(rt)
       THEN /\ CatchRefresh(r, PlainError("No refresh token available"))
            /\ UNCHANGED << refreshToken, cyc >>
       ELSE /\ refreshToken' = rt
            /\ pc' = [pc EXCEPT ![r] = "awaitRefresh"]
            /\ cyc' = [cyc EXCEPT !.calls = @ + 1]
            /\ UNCHANGED << failedQueue, err, hdr, relTok, refreshError >>
  /\ UNCHANGED << store, isRefreshing, retry, body, newTokens, nextTok,
                  defaultAuth, svc, ctx, nav, interval, hookVars, clockVars, timerVars, guardVars, wasQueued, calls >>

\* HttpClient.refreshTokens (lines 149-159): what POST /auth/refresh can do.
RefreshOutcomes == {"ok", "flagFalse", "rejected", "network"}

RefreshCallError(o) ==
  CASE o = "flagFalse" -> PlainError("Refresh token failed")
    [] o = "rejected" -> AxiosResponseError(401, "Invalid refresh token")
    [] OTHER -> AxiosNetworkError

\* Line 105 resumes: the refresh endpoint has answered.
RefresherResponse(r) ==
  /\ pc[r] = "awaitRefresh"
  /\ \E o \in RefreshOutcomes :
       IF o = "ok"
       THEN /\ nextTok <= MaxTok
            /\ newTokens' = nextTok
            /\ nextTok' = nextTok + 1
            /\ pc' = [pc EXCEPT ![r] = "awaitSetTokens"]
            /\ UNCHANGED << failedQueue, err, hdr, relTok, refreshError >>
       ELSE /\ CatchRefresh(r, RefreshCallError(o))
            /\ UNCHANGED << newTokens, nextTok >>
  /\ UNCHANGED << store, isRefreshing, retry, body, refreshToken,
                  defaultAuth, svc, ctx, nav, interval, hookVars, clockVars, timerVars, guardVars, wasQueued, cyc, calls >>

\* Variant: the queue is resolved last in, first out.
ReleaseOrderReversed(q) == [i \in 1 .. Len(q) |-> q[Len(q) + 1 - i]]

\* The order in which processQueue resolves the entries: forEach over
\* failedQueue (line 135).
ReleaseOrder(q) == q

\* Line 106 resumes: setTokens has settled.  On success the queue is
\* released, the original request replayed and, in finally, the flag reset
\* (lines 109-113, 122), all before the next task runs.
RefresherStored(r) ==
  /\ pc[r] = "awaitSetTokens"
  /\ \E w \in SUBSET TokenKeys :
       /\ store' = WriteTokens(store, newTokens, w)
       /\ IF setTokensOk(w)
          THEN /\ processQueue(newTokens, NoError, r, "reqInt", err[r])
               /\ isRefreshing' = FALSE
               /\ cyc' = [cyc EXCEPT !.outcome = "ok",
                                      !.released = ReleaseOrder(failedQueue)]
               /\ refreshToken' = 0
               /\ newTokens' = 0
               /\ UNCHANGED refreshError
          ELSE /\ CatchRefresh(r, PlainError("Failed to store authentication tokens"))
               /\ UNCHANGED << isRefreshing, cyc, refreshToken, newTokens >>
  /\ UNCHANGED << retry, body, nextTok, defaultAuth, svc, ctx, nav, interval, hookVars, clockVars, timerVars, guardVars,
                  wasQueued, calls >>

\* Variant: the original request rejects with its own 401, the refresh
\* error is dropped.
RefreshRejectionOwn401(e) == handleError(Unauthorized)

\* What the original request rejects with after a failed refresh (line 120).
RefreshRejection(e) == handleError(e)

\* Line 117 resumes: clearAll is done; throw, then finally (lines 120-122).
RefresherCleared(r) ==
  /\ pc[r] = "awaitClearAll"
  /\ store' = clearAll
  /\ pc' = [pc EXCEPT ![r] = "rejected"]
  /\ err' = [err EXCEPT ![r] = RefreshRejection(refreshError)]
  /\ isRefreshing' = FALSE
  /\ cyc' = [cyc EXCEPT !.outcome = "failed"]
  /\ refreshToken' = 0
  /\ newTokens' = 0
  /\ refreshError' = NoError
  /\ UNCHANGED << failedQueue, retry, hdr, body, nextTok, defaultAuth,
                  svc, ctx, nav, interval, hookVars, clockVars, timerVars, guardVars, wasQueued, relTok, calls >>

HttpStep(r) ==
  \/ RequestInterceptor(r)
  \/ Respond2xx(r)
  \/ RespondError(r)
  \/ Respond401(r)
  \/ RefresherReadToken(r)
  \/ RefresherResponse(r)
  \/ RefresherStored(r)
  \/ RefresherCleared(r)

(***************************************************************************)
(* Session context reducer                                                 *)
(***************************************************************************)
initialState ==
  [state |-> "idle", isLoading |-> TRUE, isAuthenticated |-> FALSE,
   user |-> 0, error |-> "", isInitialized |-> FALSE]

\* Variant: CLEAR_ERROR leaves the status alone.
ClearErrorStateKept(s) == s.state

\* The status CLEAR_ERROR sets (lines 129-131).
ClearErrorState(s) ==
  IF s.isAuthenticated THEN "authenticated" ELSE "unauthenticated"

\* authReducer (error "" is null, user 0 is null).
authReducer(s, type, payload) ==
  CASE type = "SET_LOADING" ->
         [s EXCEPT !.isLoading = payload,
                   !.state = IF payload THEN "loading" ELSE @]
    [] type = "SET_ERROR" ->
         [s EXCEPT !.error = payload, !.isLoading = FALSE,
                   !.state = IF payload # "" THEN "error" ELSE @]
    [] type = "SET_AUTHENTICATED" ->
         [s EXCEPT !.isAuthenticated = TRUE, !.user = payload, !.error = "",
                   !.isLoading = FALSE, !.state = "authenticated",
                   !.isInitialized = TRUE]
    [] type = "SET_UNAUTHENTICATED" ->
         [s EXCEPT !.isAuthenticated = FALSE, !.user = 0, !.error = "",
                   !.isLoading = FALSE, !.state = "unauthenticated",
                   !.isInitialized = TRUE]
    [] type = "SET_INITIALIZED" ->
         [s EXCEPT !.isInitialized = payload,
                   !.isLoading = IF payload THEN @ ELSE FALSE]
    [] type = "CLEAR_ERROR" ->
         [s EXCEPT !.error = "", !.state = ClearErrorState(s)]
    [] type = "UPDATE_USER" -> [s EXCEPT !.user = payload]
    [] OTHER -> s

(***************************************************************************)
(* Auth service and the provider actions that call it                      *)
(***************************************************************************)
\* svc.op is the call application code made, svc.at the await it is
\* suspended on; result/value are what the last AuthService method settled
\* with, settled what the call itself settled with; the other fields keep
\* what the call read and received, whether a write of login / register
\* failed, and the Authorization header of the last postPublic request.
IdleSvc ==
  [op |-> "none", at |-> "idle", result |-> "none", value |-> "none",
   settled |-> "none", inVerify |-> FALSE,
   hasTokens |-> "none", isExpired |-> "none", should |-> "none",
   tokens |-> 0, user |-> 0, error |-> "",
   readFault |-> FALSE, refreshOk |-> "none", meOk |-> "none",
   writeFault |-> FALSE, pubHdr |-> 0,
   prevAuth |-> FALSE, prevUser |-> 0]

NoCalls == [refresh |-> 0, me |-> 0, logout |-> 0, login |-> 0, session |-> 0]

\* The users the backend answers with.
Users == {1, 2}

ServiceOps == {"logout", "refreshTokens", "verifySession", "login", "register"}
ProviderOps == {"ctxInit", "ctxLogin", "ctxLogout", "ctxRefresh", "ctxCheck"}

SvcIdle == svc.at \in {"idle", "done"}

\* AuthService.handleAuthError: the message the AuthError carries.
handleAuthError(e) ==
  IF e.message # "" THEN e.message
  ELSE "An unexpected authentication error occurred"

\* What HttpClient.postPublic throws (lines 266-285): a structured network
\* error, or the body of the error response (a 401 included).
postPublicError(o) ==
  CASE o = "network" ->
         [message |-> "No se puede conectar al servidor"]
    [] o = "rejected" -> [message |-> "server message"]
    [] o = "unauthorized" -> [message |-> "Unauthorized"]
    [] OTHER -> [message |-> ""]

PublicOutcomes == {"ok", "flagFalse", "rejected", "unauthorized", "network"}

\* Variant: postPublic sends through the axios instance, whose request
\* interceptor and defaults add the header.
PublicViaInstance(stored, default) == IF stored # 0 THEN stored ELSE default

\* The Authorization header of a postPublic request (lines 247-262): the
\* request goes out through axios.post, not the instance, with
\* Authorization: undefined in its config; 0 is no header.
PublicAuthorization(stored, default) == 0

\* The AuthService call sends an authenticated request through the axios
\* instance: a fresh config enters the request interceptor.
SvcSend ==
  /\ pc' = [pc EXCEPT ![SvcReq] = "reqInt"]
  /\ retry' = [retry EXCEPT ![SvcReq] = FALSE]
  /\ hdr' = [hdr EXCEPT ![SvcReq] = 0]
  /\ err' = [err EXCEPT ![SvcReq] = NoError]
  /\ body' = [body EXCEPT ![SvcReq] = "none"]
  /\ wasQueued' = [wasQueued EXCEPT ![SvcReq] = FALSE]
  /\ relTok' = [relTok EXCEPT ![SvcReq] = 0]
  /\ UNCHANGED << isRefreshing, failedQueue, refreshToken, newTokens,
                  refreshError, cyc >>

SvcSettled == pc[SvcReq] \in {"resolved", "rejected"}

\* The awaiting AuthService method takes the settled request's outcome; the
\* request object is dropped.
SvcTake ==
  /\ pc' = [pc EXCEPT ![SvcReq] = "idle"]
  /\ retry' = [retry EXCEPT ![SvcReq] = FALSE]
  /\ hdr' = [hdr EXCEPT ![SvcReq] = 0]
  /\ err' = [err EXCEPT ![SvcReq] = NoError]
  /\ body' = [body EXCEPT ![SvcReq] = "none"]
  /\ wasQueued' = [wasQueued EXCEPT ![SvcReq] = FALSE]
  /\ relTok' = [relTok EXCEPT ![SvcReq] = 0]
  /\ UNCHANGED << isRefreshing, failedQueue, refreshToken, newTokens,
                  refreshError, cyc >>

\* The provider actions that run refreshSession (lines 234-246): a direct
\* call, or a tick of the auto-refresh interval (line 275).
SessionRefreshOps == {"ctxRefresh", "tick"}

\* Variant: no fallback and no message at all.
LoginErrorMessageEmpty(value) == ""

\* The message login dispatches with SET_ERROR (line 196).
LoginErrorMessage(value) ==
  IF value # "" THEN value ELSE "Error al iniciar sesion"

\* Variant: every provider action reports a failure the way login does.
ProviderSettleAsError(s, result, value, c) ==
  IF result = "resolved"
  THEN authReducer(c, "SET_AUTHENTICATED", s.user)
  ELSE authReducer(c, "SET_ERROR", value)

\* Variant: checkAuthStatus stores the fetched user without marking the
\* session authenticated.
CheckSettleUserOnly(s, result, value, c) ==
  IF result = "resolved" /\ value = "user"
  THEN [c EXCEPT !.user = s.user]
  ELSE c

\* checkAuthStatus (lines 248-261) with the isAuthenticated of the render
\* that created the callback (s.prevAuth): getCurrentUser resolved, or
\* verifySession returned false while that render was authenticated; a
\* rejection of getCurrentUser is caught and nothing is dispatched.
CheckSettle(s, result, value, c) ==
  IF result = "resolved" /\ value = "user"
  THEN authReducer(c, "SET_AUTHENTICATED", s.user)
  ELSE IF result = "resolved" /\ value = "false" /\ s.prevAuth
  THEN authReducer(c, "SET_UNAUTHENTICATED", 0)
  ELSE c

\* What the provider dispatches when the AuthService call it awaits settles
\* for good: initializeAuth (lines 164-176), login (lines 191-198), logout
\* (lines 224-229), refreshSession (lines 241-244).  getCurrentUser resolves
\* with value "user", the user being s.user.
ProviderSettle(s, result, value, c) ==
  CASE s.op = "ctxLogout" -> authReducer(c, "SET_UNAUTHENTICATED", 0)
    [] s.op = "ctxLogin" ->
         IF result = "resolved"
         THEN authReducer(c, "SET_AUTHENTICATED", s.user)
         ELSE authReducer(c, "SET_ERROR", LoginErrorMessage(value))
    [] s.op \in SessionRefreshOps \cup {"ctxInit"} ->
         IF result = "resolved" /\ value = "user"
         THEN authReducer(c, "SET_AUTHENTICATED", s.user)
         ELSE authReducer(c, "SET_UNAUTHENTICATED", 0)
    [] s.op = "ctxCheck" -> CheckSettle(s, result, value, c)
    [] OTHER -> c

\* The segment a router.replace target lies in.
SegmentOf(target) == IF target = "/(tabs)" THEN "(tabs)" ELSE "auth"

\* Variant: logout never navigates.
ProviderStays(op, result, n) == n

\* router.replace("/auth/login") follows only in logout's try block (line 225).
ProviderNavigate(op, result, n) ==
  IF op = "ctxLogout" /\ result = "resolved" THEN "/auth/login" ELSE n

\* Variant: no provider action catches.
CallRethrows(op, result) == result

\* What the call settles with for its caller: login rethrows (line 198),
\* the other provider actions catch everything; an AuthService method called
\* directly settles as it did.
CallSettles(op, result) ==
  IF op \in ProviderOps \cup SessionRefreshOps /\ op # "ctxLogin"
  THEN "resolved" ELSE result

\* Variant: the effect returns no cleanup.
AutoRefreshNoCleanup(was, is, n) ==
  IF was = is THEN n ELSE n + (IF is THEN 1 ELSE 0)

\* The auto-refresh effect (lines 268-286) after a render: it re-runs when
\* isAuthenticated changed, first the cleanup of the previous run
\* (clearInterval, when that run had armed one), then setInterval when
\* isAuthenticated is true.
AutoRefreshEffect(was, is, n) ==
  IF was = is THEN n
  ELSE (IF was THEN n - 1 ELSE n) + (IF is THEN 1 ELSE 0)

\* The top-level call settles; the provider's continuation runs with it,
\* the component re-renders and its effects run.
Settle(s, result, value) ==
  /\ svc' = [s EXCEPT !.at = "done", !.result = result, !.value = value,
                      !.inVerify = FALSE,
                      !.settled = CallSettles(s.op, result)]
  /\ ctx' = ProviderSettle(s, result, value, ctx)
  /\ nav' = ProviderNavigate(s.op, result, nav)
  /\ segments' = IF nav' = nav THEN segments ELSE SegmentOf(nav')
  /\ UNCHANGED << hookVars, clockVars, timerVars, guard, effectDeps,
                  isNavigating, navigateTimeout, effectCleanup, redirect >>
  /\ interval' = AutoRefreshEffect(ctx.isAuthenticated, ctx'.isAuthenticated,
                                   interval)

\* verifySession turns what refreshTokens / getCurrentUser settled with into
\* a boolean (lines 280-294); outside verifySession the method settles as is.
Returned(s, method, result, value) ==
  IF s.inVerify
  THEN [method |-> "verifySession", result |-> "resolved",
        value |-> IF result = "resolved" THEN "true" ELSE "false"]
  ELSE [method |-> method, result |-> result, value |-> value]

\* Whether the provider action goes on to call getCurrentUser: initializeAuth
\* after verifySession returned true (lines 164-166), refreshSession after
\* refreshTokens resolved (lines 238-239).
CallsMeNext(op, r) ==
  IF op = "ctxInit" THEN r.method = "verifySession" /\ r.value = "true"
  ELSE IF op \in SessionRefreshOps
  THEN r.method = "refreshTokens" /\ r.result = "resolved"
  ELSE FALSE

\* checkAuthStatus calls getCurrentUser after verifySession returned true
\* when the render that created the callback was not authenticated
\* (lines 252-253).
CheckCallsMe(s, r) ==
  r.method = "verifySession" /\ r.value = "true" /\ ~s.prevAuth

CallsMe(s, r) ==
  IF s.op = "ctxCheck" THEN CheckCallsMe(s, r) ELSE CallsMeNext(s.op, r)

\* An AuthService method settles for the code that awaited it.
MethodReturn(s, r) ==
  IF CallsMe(s, r)
  THEN /\ svc' = [s EXCEPT !.at = "me_get", !.inVerify = FALSE,
                           !.result = r.result, !.value = r.value]
       /\ UNCHANGED << ctx, nav, interval, hookVars, clockVars, timerVars, guardVars >>
  ELSE Settle(s, r.result, r.value)

\* The request the continuation sends, if it calls getCurrentUser.
ThenHttp(s, method, result, value) ==
  IF CallsMe(s, Returned(s, method, result, value))
  THEN SvcSend ELSE UNCHANGED httpVars

\* Application code calls an AuthService method or a provider action; the
\* provider's initializeAuth runs once, on mount, the other provider actions
\* once the provider is initialised.
CallAllowed(op) ==
  CASE op = "ctxInit" -> ~ctx.isInitialized
    [] op \in ProviderOps -> ctx.isInitialized
    [] OTHER -> TRUE

Call(op) ==
  /\ SvcIdle
  /\ pc[SvcReq] = "idle"
  /\ CallAllowed(op)
  /\ LET s == [IdleSvc EXCEPT !.op = op, !.prevAuth = ctx.isAuthenticated,
                              !.prevUser = ctx.user] IN
     CASE op \in {"logout", "ctxLogout"} ->
            \* logout: httpClient.post("/auth/logout") (line 193)
            /\ svc' = [s EXCEPT !.at = "lo_post"]
            /\ SvcSend
            /\ ctx' = IF op = "ctxLogout"
                      THEN authReducer(ctx, "SET_LOADING", TRUE) ELSE ctx
            /\ calls' = NoCalls
       [] op \in {"refreshTokens", "ctxRefresh"} ->
            /\ svc' = [s EXCEPT !.at = "rt_read"]
            /\ ctx' = IF op = "ctxRefresh"
                      THEN authReducer(ctx, "SET_LOADING", TRUE) ELSE ctx
            /\ calls' = [NoCalls EXCEPT !.session = IF op = "ctxRefresh" THEN 1 ELSE 0]
            /\ UNCHANGED httpVars
       [] op \in {"verifySession", "ctxInit", "ctxCheck"} ->
            /\ svc' = [s EXCEPT !.at = "vs_has", !.inVerify = TRUE]
            /\ ctx' = IF op = "ctxInit"
                      THEN authReducer(ctx, "SET_LOADING", TRUE) ELSE ctx
            /\ calls' = NoCalls
            /\ UNCHANGED httpVars
       [] OTHER ->
            \* login / register: httpClient.postPublic (lines 80, 135);
            \* the provider dispatches SET_LOADING, CLEAR_ERROR first.
            /\ svc' = [s EXCEPT !.at = "li_call",
                                !.pubHdr = PublicAuthorization(store.access,
                                                               defaultAuth)]
            /\ ctx' = IF op = "ctxLogin"
                      THEN authReducer(authReducer(ctx, "SET_LOADING", TRUE),
                                       "CLEAR_ERROR", 0)
                      ELSE ctx
            /\ calls' = NoCalls
            /\ UNCHANGED httpVars
  /\ UNCHANGED << hookVars, clockVars, timerVars, guardVars >>
  /\ interval' = AutoRefreshEffect(ctx.isAuthenticated, ctx'.isAuthenticated,
                                   interval)
  /\ UNCHANGED << store, nextTok, defaultAuth, nav >>

\* ---- AuthService.logout (lines 189-211) ----
\* Variant: the server call's rejection reaches the outer catch.
LogoutAfterPostRethrows(settled) ==
  IF settled = "resolved" THEN "lo_clear" ELSE "lo_catch"

\* Where logout continues once the server call settled: the inner
\* try/catch (lines 192-200) swallows a rejection.
LogoutAfterPost(settled) == "lo_clear"

\* Line 193 resumes: the server call settled; a failure is logged (svc.error
\* keeps the logged message) and clearAll is awaited (line 203, or line 206
\* in the outer catch).
LogoutPosted ==
  /\ svc.at = "lo_post"
  /\ SvcSettled
  /\ calls' = [calls EXCEPT !.logout = @ + 1]
  /\ svc' = [svc EXCEPT !.at = LogoutAfterPost(pc[SvcReq]),
                        !.error = IF pc[SvcReq] = "rejected"
                                  THEN err[SvcReq].message ELSE ""]
  /\ SvcTake
  /\ UNCHANGED << store, nextTok, defaultAuth, ctx, nav, interval, hookVars, clockVars, timerVars, guardVars >>

\* Line 203 (206) resumes: the store is cleared; removeAuthToken is next.
LogoutCleared ==
  /\ svc.at \in {"lo_clear", "lo_catch"}
  /\ store' = clearAll
  /\ svc' = [svc EXCEPT !.at = IF svc.at = "lo_clear" THEN "lo_remove"
                                ELSE "lo_rethrow"]
  /\ UNCHANGED << nextTok, defaultAuth, httpVars, ctx, nav, interval, hookVars, clockVars, timerVars, guardVars, calls >>

\* Line 204 (207-208): removeAuthToken; logout resolves, or rethrows from
\* the outer catch.
LogoutRemoved ==
  /\ svc.at \in {"lo_remove", "lo_rethrow"}
  /\ defaultAuth' = 0
  /\ IF svc.at = "lo_remove"
     THEN Settle(svc, "resolved", "")
     ELSE Settle(svc, "rejected", handleAuthError([message |-> svc.error]))
  /\ UNCHANGED << store, nextTok, httpVars, calls >>

\* ---- AuthService.refreshTokens (lines 216-243) ----
\* refreshTokens settles: verifySession maps it to a boolean (lines 280-285).
RefreshReturn(s, result, value) ==
  MethodReturn(s, Returned(s, "refreshTokens", result, value))

\* Line 218 resumes: the refresh token was read.
RefreshRead ==
  /\ svc.at = "rt_read"
  /\ \E rt \in getRefreshToken :
       /\ svc' = [svc EXCEPT !.at = IF rt = 0 THEN "rt_clear" ELSE "rt_call",
                             !.pubHdr = IF rt = 0 THEN @
                                        ELSE PublicAuthorization(store.access,
                                                                 defaultAuth),
                             !.error = IF rt = 0 THEN "No refresh token available" ELSE @,
                             !.readFault = @ \/ rt # store.refresh]
       /\ calls' = [calls EXCEPT !.refresh = IF rt = 0 THEN @ ELSE @ + 1]
  /\ UNCHANGED << store, nextTok, defaultAuth, httpVars, ctx, nav, interval, hookVars, clockVars, timerVars, guardVars >>

\* Line 223 resumes: postPublic("/auth/refresh") settled.
RefreshResponded ==
  /\ svc.at = "rt_call"
  /\ \E o \in PublicOutcomes :
       IF o = "ok"
       THEN /\ nextTok <= MaxTok
            /\ nextTok' = nextTok + 1
            /\ svc' = [svc EXCEPT !.at = "rt_store", !.tokens = nextTok,
                                  !.refreshOk = "true"]
       ELSE /\ svc' = [svc EXCEPT !.at = "rt_clear", !.refreshOk = "false",
                         !.error = IF o = "flagFalse" THEN "Token refresh failed"
                                   ELSE handleAuthError(postPublicError(o))]
            /\ UNCHANGED nextTok
  /\ UNCHANGED << store, defaultAuth, httpVars, ctx, nav, interval, hookVars, clockVars, timerVars, guardVars, calls >>

\* Line 235 resumes: setTokens settled.
RefreshStored ==
  /\ svc.at = "rt_store"
  /\ \E w \in SUBSET TokenKeys :
       /\ store' = WriteTokens(store, svc.tokens, w)
       /\ IF setTokensOk(w)
          THEN /\ RefreshReturn(svc, "resolved", "tokens")
               /\ ThenHttp(svc, "refreshTokens", "resolved", "tokens")
          ELSE /\ svc' = [svc EXCEPT !.at = "rt_clear", !.refreshOk = "false",
                            !.error = "Failed to store authentication tokens"]
               /\ UNCHANGED << ctx, nav, interval, hookVars, clockVars, timerVars, guardVars, httpVars >>
  /\ UNCHANGED << nextTok, defaultAuth, calls >>

\* Variant: the catch rethrows without clearing.
RefreshFailureKeeps(s) == s

\* The store refreshTokens leaves behind when it rejects (line 240).
RefreshFailureStore(s) == clearAll

\* Line 240 resumes: the store is cleared, the error rethrown.
RefreshCleared ==
  /\ svc.at = "rt_clear"
  /\ store' = RefreshFailureStore(store)
  /\ RefreshReturn(svc, "rejected", svc.error)
  /\ ThenHttp(svc, "refreshTokens", "rejected", svc.error)
  /\ UNCHANGED << nextTok, defaultAuth, calls >>

\* ---- AuthService.getCurrentUser (lines 248-263) ----
\* Variant: verifySession lets getCurrentUser's rejection through.
MeReturnUncaught(s, result, value) == Settle(s, result, value)

\* getCurrentUser settles: verifySession maps it to a boolean (lines 289-294).
MeReturn(s, result, value) ==
  MethodReturn(s, Returned(s, "getCurrentUser", result, value))

\* Line 250 resumes: GET /auth/me settled; a 2xx answer with success set
\* carries a user.
MeResponded ==
  /\ svc.at = "me_get"
  /\ SvcSettled
  /\ calls' = [calls EXCEPT !.me = @ + 1]
  /\ IF pc[SvcReq] = "resolved" /\ body[SvcReq] = "ok"
     THEN /\ \E u \in Users : svc' = [svc EXCEPT !.at = "me_store", !.user = u]
          /\ UNCHANGED << ctx, nav, interval, hookVars, clockVars, timerVars, guardVars >>
     ELSE MeReturn([svc EXCEPT !.meOk = "false"], "rejected",
                   IF pc[SvcReq] = "rejected" THEN handleAuthError(err[SvcReq])
                   ELSE "Failed to get user profile")
  /\ SvcTake
  /\ UNCHANGED << store, nextTok, defaultAuth >>

\* Line 257 resumes: setUserData settled.
MeStored ==
  /\ svc.at = "me_store"
  /\ \E ok \in BOOLEAN :
       IF ok
       THEN /\ store' = [store EXCEPT !.user = svc.user]
            /\ MeReturn([svc EXCEPT !.meOk = "true"], "resolved", "user")
            /\ ThenHttp(svc, "getCurrentUser", "resolved", "user")
       ELSE /\ store' = store
            /\ MeReturn([svc EXCEPT !.meOk = "false"], "rejected",
                        "Failed to store user data")
            /\ ThenHttp(svc, "getCurrentUser", "rejected",
                        "Failed to store user data")
  /\ UNCHANGED << nextTok, defaultAuth, calls >>

\* ---- AuthService.verifySession (lines 268-298) ----
\* Variant: verifySession reports a session although no tokens are stored.
NoTokensResultTrue == "true"

\* What verifySession returns when no tokens are stored (line 273).
NoTokensResult == "false"

\* Line 271 resumes: hasStoredTokens settled.
VerifyHasTokens ==
  /\ svc.at = "vs_has"
  /\ \E h \in hasStoredTokens :
       LET s == [svc EXCEPT !.hasTokens = IF h THEN "true" ELSE "false",
                            !.readFault = h # (store.access # 0 /\ store.refresh # 0)]
           r == [method |-> "verifySession", result |-> "resolved",
                 value |-> NoTokensResult]
       IN IF h
          THEN /\ svc' = [s EXCEPT !.at = "vs_exp"]
               /\ UNCHANGED << ctx, nav, interval, hookVars, clockVars, timerVars, guardVars, httpVars >>
          ELSE /\ MethodReturn(s, r)
               /\ IF CallsMeNext(s.op, r) THEN SvcSend ELSE UNCHANGED httpVars
  /\ UNCHANGED << store, nextTok, defaultAuth, calls >>

\* Variant: the two paths are swapped.
VerifyBranchSwapped(expired) == IF expired THEN "me_get" ELSE "rt_read"

\* The path verifySession takes once isTokenExpired is known (lines 278-294).
VerifyBranch(expired) == IF expired THEN "rt_read" ELSE "me_get"

\* Line 277 resumes: isTokenExpired settled; refreshTokens or getCurrentUser
\* is called.
VerifyExpiry ==
  /\ svc.at = "vs_exp"
  /\ \E e \in isTokenExpired :
       LET to == VerifyBranch(e) IN
       /\ svc' = [svc EXCEPT !.at = to,
                             !.isExpired = IF e THEN "true" ELSE "false",
                             !.readFault = @ \/ (e /\ store.expiry \in {"fresh", "soon"})]
       /\ IF to = "me_get" THEN SvcSend ELSE UNCHANGED httpVars
  /\ UNCHANGED << store, nextTok, defaultAuth, ctx, nav, interval, hookVars, clockVars, timerVars, guardVars, calls >>

\* ---- AuthService.login (lines 132-184), register (lines 63-127) ----
\* The message of the Error thrown when the answer lacks success or data.
NoDataMessage(op) ==
  IF op = "register" THEN "Registration failed" ELSE "Login failed"

\* Line 135 (80) resumes: postPublic settled; a successful answer carries a
\* user and a token pair.
LoginResponded ==
  /\ svc.at = "li_call"
  /\ calls' = [calls EXCEPT !.login = @ + 1]
  /\ \E o \in PublicOutcomes :
       IF o = "ok"
       THEN /\ nextTok <= MaxTok
            /\ nextTok' = nextTok + 1
            /\ \E u \in Users :
                 svc' = [svc EXCEPT !.at = "li_store", !.tokens = nextTok,
                                    !.user = u]
            /\ UNCHANGED << ctx, nav, interval, hookVars, clockVars, timerVars, guardVars >>
       ELSE /\ Settle(svc, "rejected",
                      IF o = "flagFalse" THEN NoDataMessage(svc.op)
                      ELSE handleAuthError(postPublicError(o)))
            /\ UNCHANGED nextTok
  /\ UNCHANGED << store, defaultAuth, httpVars >>

\* Variant: the profile already in the store is kept.
StoredUserFirst(u) == 1

\* What setUserData writes under the user key (lines 108-118).
StoredUser(u) == u

\* Variant: a failed setUserData is not awaited.
LoginPersistedTokensOnly(tokensOk, userOk) == tokensOk

\* Promise.all([setTokens, setUserData]) (lines 175-178, 120-123) resolves
\* when both writes did.
LoginPersisted(tokensOk, userOk) == tokensOk /\ userOk

\* Line 175 (120) resumes: Promise.all([setTokens, setUserData]) settled.
LoginStored ==
  /\ svc.at = "li_store"
  /\ \E w \in SUBSET TokenKeys, u \in BOOLEAN :
       /\ store' = [WriteTokens(store, svc.tokens, w) EXCEPT
                      !.user = IF u THEN StoredUser(svc.user) ELSE @]
       /\ IF LoginPersisted(setTokensOk(w), u)
          THEN Settle([svc EXCEPT !.writeFault = ~(setTokensOk(w) /\ u)],
                      "resolved", "user")
          ELSE Settle([svc EXCEPT !.writeFault = TRUE], "rejected",
                      IF setTokensOk(w) THEN "Failed to store user data"
                      ELSE "Failed to store authentication tokens")
  /\ UNCHANGED << nextTok, defaultAuth, httpVars, calls >>

\* ---- AuthProvider auto-refresh (lines 268-286) ----
\* The interval fires: checkTokenRefresh awaits shouldRefreshToken (line 273).
Tick ==
  /\ interval > 0
  /\ SvcIdle
  /\ pc[SvcReq] = "idle"
  /\ svc' = [IdleSvc EXCEPT !.op = "tick", !.at = "tk_should",
                            !.prevAuth = ctx.isAuthenticated,
                            !.prevUser = ctx.user]
  /\ calls' = NoCalls
  /\ UNCHANGED << store, nextTok, defaultAuth, httpVars, ctx, nav, interval, hookVars, clockVars, timerVars, guardVars >>

\* Whether the tick goes on to refreshSession (line 274).
TickRefreshes(should) == should

\* Line 273 resumes: shouldRefreshToken settled; refreshSession is called
\* (dispatching SET_LOADING, line 236) or the tick ends.
TickChecked ==
  /\ svc.at = "tk_should"
  /\ \E sh \in shouldRefreshToken :
       LET s == [svc EXCEPT !.should = IF sh THEN "true" ELSE "false"] IN
       IF TickRefreshes(sh)
       THEN /\ svc' = [s EXCEPT !.at = "rt_read"]
            /\ ctx' = authReducer(ctx, "SET_LOADING", TRUE)
            /\ calls' = [calls EXCEPT !.session = @ + 1]
            /\ UNCHANGED << nav, interval, hookVars, clockVars, timerVars, guardVars >>
       ELSE /\ svc' = [s EXCEPT !.at = "done", !.settled = "resolved"]
            /\ UNCHANGED << ctx, nav, interval, hookVars, clockVars, timerVars, guardVars, calls >>
  /\ UNCHANGED << store, nextTok, defaultAuth, httpVars >>

\* ---- AuthProvider.clearError (lines 263-265) ----
ClearError ==
  /\ ctx' = authReducer(ctx, "CLEAR_ERROR", 0)
  /\ UNCHANGED << store, nextTok, defaultAuth, httpVars, svc, nav, interval,
                  hookVars, clockVars, timerVars, guardVars, calls >>

\* Time passes: the stored expiry comes within five minutes, then within
\* the 60 s buffer.
Expire ==
  /\ store.expiry \in {"fresh", "soon"}
  /\ store' = [store EXCEPT !.expiry = IF @ = "fresh" THEN "soon" ELSE "expired"]
  /\ UNCHANGED << nextTok, defaultAuth, httpVars, svc, ctx, nav, interval, hookVars, clockVars, timerVars, guardVars, calls >>

SvcStep ==
  \/ LogoutPosted
  \/ LogoutCleared
  \/ LogoutRemoved
  \/ RefreshRead
  \/ RefreshResponded
  \/ RefreshStored
  \/ RefreshCleared
  \/ MeResponded
  \/ MeStored
  \/ VerifyHasTokens
  \/ VerifyExpiry
  \/ LoginResponded
  \/ LoginStored

(***************************************************************************)
(* Initial states                                                          *)
(***************************************************************************)
NoCycle == [members |-> {}, calls |-> 0, outcome |-> "none", released |-> << >>]

(***************************************************************************)
(* useApiMutation (src/hooks/use-api-mutation.ts)                          *)
(*                                                                         *)
(* The code between two awaits runs without interleaving; cancel(),        *)
(* reset(), mutate() and a render are separate events.  A callback created *)
(* by one render reads the state of that render.  The                      *)
(* error of a rejected attempt is identified by the attempt's number.      *)
(***************************************************************************)
\* Largest numeric retry option (useAuthMutation passes 2, line 273).
MaxRetry == 2

\* Number of mutate() calls made on one hook instance.
MaxInv == 2

Inv == 1 .. MaxInv

\* options.retry: false (useCriticalMutation, line 289) or a number.
RetryFalse == [boolean |-> TRUE, on |-> FALSE, n |-> 0]
RetryNumber(n) == [boolean |-> FALSE, on |-> FALSE, n |-> n]
RetryOptions == {RetryFalse} \cup {RetryNumber(n) : n \in 0 .. MaxRetry}

\* options.retryDelay: a number of milliseconds (default 1000, line 50) or
\* a function of the attempt index (useAuthMutation, line 274).
FixedDelay(ms) == [fn |-> FALSE, ms |-> ms]
BackoffDelay == [fn |-> TRUE, ms |-> 0]
DefaultRetryDelay == FixedDelay(1000)

\* The retry bound useAuthMutation passes (line 273).
AuthRetry == 2

RECURSIVE Pow2(_)
Pow2(n) == IF n = 0 THEN 1 ELSE 2 * Pow2(n - 1)

\* useAuthMutation's retryDelay (line 274):
\* Math.min(1000 * Math.pow(2, attemptIndex), 5000).
authRetryDelay(attemptIndex) ==
  IF 1000 * Pow2(attemptIndex) < 5000 THEN 1000 * Pow2(attemptIndex) ELSE 5000

\* Variant: the delay function is given the attempt's number.
DelayIndexAttempt(currentAttempt) == currentAttempt

\* The index executeWithRetry passes to the delay function (line 116).
DelayIndex(currentAttempt) == currentAttempt - 1

\* delay (lines 115-117).
Delay(currentAttempt) ==
  IF retryDelay.fn THEN authRetryDelay(DelayIndex(currentAttempt))
  ELSE retryDelay.ms

NullError == [kind |-> "null", attempt |-> 0]
CancelledError == [kind |-> "Mutation was cancelled", attempt |-> 0]
AttemptError(k) == [kind |-> "mutationFn", attempt |-> k]

\* useState's initial value (lines 56-64), also what reset() sets.
IdleState ==
  [data |-> 0, error |-> NullError, isLoading |-> FALSE, isError |-> FALSE,
   isSuccess |-> FALSE, isIdle |-> TRUE, attemptCount |-> 0]

\* What the callbacks of a render read of its state: mutate reads
\* isLoading (line 133), data and error (lines 220-225); mutateAsync reads
\* isError, error and data (lines 241-244).
Closure(s) ==
  [isLoading |-> s.isLoading, data |-> s.data, error |-> s.error,
   isError |-> s.isError]

\* The value mutationFn resolves with.
Result == 1

\* The promise mutateAsync returned: not settled.
Pending == [settled |-> "pending", data |-> 0, error |-> NullError]

\* The .then of mutateAsync (lines 240-246), run when mutate() has
\* returned, with the state c of the render that created mutateAsync.
MutateAsyncThen(c) ==
  IF c.isError /\ c.error # NullError
  THEN [settled |-> "rejected", data |-> 0, error |-> c.error]
  ELSE IF c.data # 0
  THEN [settled |-> "resolved", data |-> c.data, error |-> NullError]
  ELSE Pending

IdleInv ==
  [pc |-> "idle", attempt |-> 0, closure |-> Closure(IdleState),
   cancelled |-> FALSE, result |-> "none", async |-> Pending,
   delays |-> << >>,
   fnCalls |-> 0, optimistic |-> 0, revert |-> 0, wrote |-> 0,
   onSuccess |-> 0, onError |-> 0, onErrorArg |-> NullError, onSettled |-> 0]

InFlight(i) == inv[i].pc \in {"await_fn", "delay"}

\* shouldRetry (line 112).
ShouldRetry(currentAttempt) ==
  IF retryOption.boolean THEN retryOption.on
  ELSE currentAttempt <= retryOption.n

\* The guard of mutate (line 133): state is the closure's.
MutateGuard == rendered.isLoading

\* Variant: the optimistic update is reverted in both branches.
RevertsAlways(deliver, result) == deliver

\* revertOptimisticUpdate is called in the catch branch only, and only
\* when not cancelled (lines 183-198).
Reverts(deliver, result) == deliver /\ result = "rejected"

\* Variant: the first error is the one passed on.
FinalErrorFirst(k) == AttemptError(1)

\* The error executeWithRetry throws when it gives up (line 125): the one
\* it caught on this attempt.
FinalError(k) == AttemptError(k)

\* mutate after `await executeWithRetry` settled (lines 160-231): the
\* success branch, the catch branch and the finally block.
Finish(i, result, data, error) ==
  LET deliver == ~cancelRef
      settled == ~cancelRef
      v == inv[i]
  IN /\ state' =
          IF ~deliver THEN state
          ELSE IF result = "resolved"
               THEN [state EXCEPT !.data = data, !.isLoading = FALSE,
                                  !.isSuccess = TRUE, !.error = NullError]
               ELSE [state EXCEPT !.error = error, !.isLoading = FALSE,
                                  !.isError = TRUE]
     /\ inv' = [inv EXCEPT ![i] =
          [v EXCEPT
             !.pc = "done", !.result = result,
             !.async = MutateAsyncThen(v.closure),
             !.wrote = IF deliver THEN @ + 1 ELSE @,
             !.onSuccess = IF deliver /\ result = "resolved" THEN @ + 1 ELSE @,
             !.revert = IF Reverts(deliver, result) THEN @ + 1 ELSE @,
             !.onError = IF deliver /\ result = "rejected" THEN @ + 1 ELSE @,
             !.onErrorArg = IF deliver /\ result = "rejected" THEN error ELSE @,
             !.onSettled = IF settled THEN @ + 1 ELSE @]]
     /\ UNCHANGED cancelRef

\* executeWithRetry(variables, k) up to its await (lines 91-104).
Attempt(i, k) ==
  IF cancelRef
  THEN Finish(i, "rejected", 0, CancelledError)
  ELSE /\ state' = [state EXCEPT !.attemptCount = k]
       /\ inv' = [inv EXCEPT ![i].pc = "await_fn", ![i].attempt = k,
                             ![i].fnCalls = @ + 1]
       /\ UNCHANGED cancelRef

\* mutate(variables) (lines 131-160), up to the await of the first attempt.
Mutate ==
  /\ \E i \in Inv :
       /\ inv[i].pc = "idle"
       /\ \A j \in Inv : j < i => inv[j].pc # "idle"
       /\ IF MutateGuard
          THEN /\ inv' = [inv EXCEPT ![i].pc = "ignored",
                                     ![i].async = MutateAsyncThen(rendered)]
               /\ UNCHANGED << state, cancelRef >>
          ELSE /\ cancelRef' = FALSE
               /\ state' = [state EXCEPT !.isLoading = TRUE, !.isError = FALSE,
                                         !.isSuccess = FALSE, !.isIdle = FALSE,
                                         !.error = NullError,
                                         !.attemptCount = 1]
               /\ inv' = [inv EXCEPT ![i] =
                    [@ EXCEPT !.pc = "await_fn", !.attempt = 1,
                              !.closure = rendered, !.optimistic = 1,
                              !.fnCalls = 1]]
  /\ UNCHANGED << rendered, retryOption, retryDelay, sessionVars,
                  clockVars, timerVars, guardVars >>

\* mutationFn resolved (lines 104-110).
FnResolves ==
  /\ \E i \in Inv :
       /\ inv[i].pc = "await_fn"
       /\ IF cancelRef
          THEN Finish(i, "rejected", 0, CancelledError)
          ELSE Finish(i, "resolved", Result, NullError)
  /\ UNCHANGED << rendered, retryOption, retryDelay, sessionVars,
                  clockVars, timerVars, guardVars >>

\* mutationFn rejected (lines 111-126).
FnRejects ==
  /\ \E i \in Inv :
       /\ inv[i].pc = "await_fn"
       /\ IF ShouldRetry(inv[i].attempt) /\ ~cancelRef
          THEN /\ inv' = [inv EXCEPT ![i].pc = "delay",
                                     ![i].delays = Append(@, Delay(inv[i].attempt))]
               /\ UNCHANGED << state, cancelRef >>
          ELSE Finish(i, "rejected", 0, FinalError(inv[i].attempt))
  /\ UNCHANGED << rendered, retryOption, retryDelay, sessionVars,
                  clockVars, timerVars, guardVars >>

\* The retry delay has passed (lines 121-122).
DelayElapsed ==
  /\ \E i \in Inv :
       /\ inv[i].pc = "delay"
       /\ Attempt(i, inv[i].attempt + 1)
  /\ UNCHANGED << rendered, retryOption, retryDelay, sessionVars,
                  clockVars, timerVars, guardVars >>

\* cancel() (lines 82-88).
Cancel ==
  /\ cancelRef' = TRUE
  /\ state' = [state EXCEPT !.isLoading = FALSE]
  /\ inv' = [i \in Inv |->
               IF InFlight(i) THEN [inv[i] EXCEPT !.cancelled = TRUE]
               ELSE inv[i]]
  /\ UNCHANGED << rendered, retryOption, retryDelay, sessionVars,
                  clockVars, timerVars, guardVars >>

\* reset() (lines 69-80).
Reset ==
  /\ state' = IdleState
  /\ cancelRef' = FALSE
  /\ UNCHANGED << inv, rendered, retryOption, retryDelay, sessionVars,
                  clockVars, timerVars, guardVars >>

\* React renders the component with the latest state; mutate is re-created
\* (its dependency list holds state, line 233).
Render ==
  /\ rendered # Closure(state)
  /\ rendered' = Closure(state)
  /\ UNCHANGED << state, cancelRef, inv, retryOption, retryDelay, sessionVars,
                  clockVars, timerVars, guardVars >>

HookInit ==
  /\ state = IdleState
  /\ rendered = Closure(IdleState)
  /\ cancelRef = FALSE
  /\ inv = [i \in Inv |-> IdleInv]

(***************************************************************************)
(* Token expiry against the clock (secure-storage.ts, auth-service.ts)     *)
(*                                                                         *)
(* JavaScript numbers here are integers or NaN; strings are sequences of   *)
(* characters.                                                             *)
(***************************************************************************)
\* Number of times the clock advances.
MaxAdvance == 3

Num(v) == [nan |-> FALSE, v |-> v]
NaN == [nan |-> TRUE, v |-> 0]
Plus(x, y) == IF x.nan \/ y.nan THEN NaN ELSE Num(x.v + y.v)
Minus(x, y) == IF x.nan \/ y.nan THEN NaN ELSE Num(x.v - y.v)
Times(x, y) == IF x.nan \/ y.nan THEN NaN ELSE Num(x.v * y.v)
\* x >= y and x < y: false whenever an operand is NaN.
GreaterEq(x, y) == ~x.nan /\ ~y.nan /\ x.v >= y.v
LessThan(x, y) == ~x.nan /\ ~y.nan /\ x.v < y.v
\* Math.floor(x / k) for k > 0, Math.max(0, x).
FloorDiv(x, k) == IF x.nan THEN NaN ELSE Num(x.v \div k)
MathMax0(x) == IF x.nan THEN NaN ELSE IF x.v < 0 THEN Num(0) ELSE x

Digits == << "0", "1", "2", "3", "4", "5", "6", "7", "8", "9" >>
IsDigit(c) == \E i \in 1 .. 10 : Digits[i] = c
DigitValue(c) == CHOOSE d \in 0 .. 9 : Digits[d + 1] = c

\* Number.prototype.toString() of an integer or NaN.
RECURSIVE DecimalDigits(_)
DecimalDigits(n) ==
  IF n < 10 THEN << Digits[n + 1] >>
  ELSE Append(DecimalDigits(n \div 10), Digits[(n % 10) + 1])

toString(x) ==
  IF x.nan THEN << "N", "a", "N" >>
  ELSE IF x.v < 0 THEN << "-" >> \o DecimalDigits(0 - x.v)
  ELSE DecimalDigits(x.v)

\* parseInt(s, 10): an optional sign, then the longest run of digits; NaN
\* when there is no digit.
RECURSIVE DigitRun(_, _, _)
DigitRun(s, i, acc) ==
  IF i > Len(s) THEN acc
  ELSE IF ~IsDigit(s[i]) THEN acc
  ELSE DigitRun(s, i + 1, acc * 10 + DigitValue(s[i]))

parseInt(s) ==
  IF s = << >> THEN NaN
  ELSE IF s[1] = "-"
  THEN IF Len(s) > 1 /\ IsDigit(s[2]) THEN Num(0 - DigitRun(s, 2, 0)) ELSE NaN
  ELSE IF IsDigit(s[1]) THEN Num(DigitRun(s, 1, 0)) ELSE NaN

\* expiresIn.slice(0, -1) and expiresIn.slice(-1)
SliceInit(s) == IF s = << >> THEN << >> ELSE SubSeq(s, 1, Len(s) - 1)
SliceLast(s) == IF s = << >> THEN "" ELSE s[Len(s)]

\* Variant: minutes counted as seconds.
millisecondsMinutesAsSeconds(timeValue, timeUnit) ==
  CASE timeUnit = "s" -> Times(timeValue, Num(1000))
    [] timeUnit = "m" -> Times(timeValue, Num(1000))
    [] timeUnit = "h" -> Times(timeValue, Num(60 * 60 * 1000))
    [] timeUnit = "d" -> Times(timeValue, Num(24 * 60 * 60 * 1000))
    [] OTHER -> Num(15 * 60 * 1000)

\* The switch of calculateExpiryTimestamp (lines 174-189).
milliseconds(timeValue, timeUnit) ==
  CASE timeUnit = "s" -> Times(timeValue, Num(1000))
    [] timeUnit = "m" -> Times(timeValue, Num(60 * 1000))
    [] timeUnit = "h" -> Times(timeValue, Num(60 * 60 * 1000))
    [] timeUnit = "d" -> Times(timeValue, Num(24 * 60 * 60 * 1000))
    [] OTHER -> Num(15 * 60 * 1000)

\* The number calculateExpiryTimestamp arrives at, and the string it returns.
expiryNumber(n, expiresIn) ==
  Plus(Num(n), milliseconds(parseInt(SliceInit(expiresIn)), SliceLast(expiresIn)))
calculateExpiryTimestamp(n, expiresIn) == toString(expiryNumber(n, expiresIn))

\* No item under a key: getItemAsync yields null.
NoItem == << >>
NoNumber == [nan |-> TRUE, v |-> -1]

\* SecureStore.getItemAsync(TOKEN_EXPIRY) yields the item or throws.
ReadExpiry == {[threw |-> FALSE, item |-> expiryItem],
               [threw |-> TRUE, item |-> NoItem]}

bufferTime == 60 * 1000

\* Variant: expired only once strictly past the buffer.
WithinBufferStrict(n, expiry) ==
  GreaterEq(Plus(Num(n), Num(bufferTime)), Plus(expiry, Num(1)))

\* now + bufferTime >= expiry (line 98).
WithinBuffer(n, expiry) == GreaterEq(Plus(Num(n), Num(bufferTime)), expiry)

\* Variant: without a stored expiry the tokens count as unexpired.
isTokenExpiredUnlessNone(read, n) ==
  IF read.threw THEN TRUE
  ELSE IF read.item = NoItem THEN FALSE
  ELSE WithinBuffer(n, parseInt(read.item))

\* isTokenExpired once its read has settled (lines 87-103).
isTokenExpiredAt(read, n) ==
  IF read.threw THEN TRUE
  ELSE IF read.item = NoItem THEN TRUE
  ELSE WithinBuffer(n, parseInt(read.item))

\* Variant: the remaining minutes without the lower bound.
MinutesLeftUnclamped(diffMs) == FloorDiv(diffMs, 60 * 1000)

\* Math.max(0, Math.floor(diffMs / (60 * 1000))) (line 208).
MinutesLeft(diffMs) == MathMax0(FloorDiv(diffMs, 60 * 1000))

\* getTimeUntilExpiry once its read has settled (lines 197-212).
getTimeUntilExpiryAt(read, n) ==
  IF read.threw THEN Num(0)
  ELSE IF read.item = NoItem THEN Num(0)
  ELSE MinutesLeft(Minus(parseInt(read.item), Num(n)))

\* AuthService.shouldRefreshToken (auth-service.ts 303-311).
shouldRefreshTokenAt(read, n) == LessThan(getTimeUntilExpiryAt(read, n), Num(5))

\* The expiresIn strings the backend sends, as text; n and unit are what
\* the text reads as ("other": no unit among s, m, h, d ends the text).
ExpiresIns ==
  { [text |-> << "9", "0", "s" >>, n |-> 90, unit |-> "s"],
    [text |-> << "2", "m" >>, n |-> 2, unit |-> "m"],
    [text |-> << "6", "m" >>, n |-> 6, unit |-> "m"],
    [text |-> << "1", "5", "m" >>, n |-> 15, unit |-> "m"],
    [text |-> << "1", "h" >>, n |-> 1, unit |-> "h"],
    [text |-> << "1", "5", "d" >>, n |-> 15, unit |-> "d"],
    [text |-> << "0", "s" >>, n |-> 0, unit |-> "s"],
    [text |-> << "5", "x" >>, n |-> 5, unit |-> "other"],
    [text |-> << "1", "5", "M" >>, n |-> 15, unit |-> "other"],
    [text |-> << "9", "0", "0" >>, n |-> 900, unit |-> "other"],
    [text |-> << >>, n |-> 0, unit |-> "other"] }

\* Milliseconds by which the clock advances between two calls.
Steps == {1, 59999, 60000}

\* The class of the stored expiry the rest of the model works with.
ExpiryClass(item, n) ==
  IF item = NoItem THEN "none"
  ELSE IF WithinBuffer(n, parseInt(item)) THEN "expired"
  ELSE IF LessThan(MinutesLeft(Minus(parseInt(item), Num(n))), Num(5)) THEN "soon"
  ELSE "fresh"

NoAnswer == [op |-> "none", at |-> 0, threw |-> FALSE, input |-> << >>,
             bool |-> FALSE, num |-> NoNumber]

\* setTokens(tokenData) with all three writes succeeding (lines 38-58).
SetTokensAt(e) ==
  /\ expiryItem' = calculateExpiryTimestamp(now, e.text)
  /\ storedExpiry' = expiryNumber(now, e.text)
  /\ store' = [WriteTokens(store, 1, TokenKeys)
                 EXCEPT !.expiry = ExpiryClass(expiryItem', now)]
  /\ answer' = [NoAnswer EXCEPT !.op = "setTokens", !.at = now, !.input = e.text]
  /\ UNCHANGED << now, advances, nextTok, defaultAuth, httpVars, svc, ctx, nav,
                  interval, calls, hookVars, timerVars, guardVars >>

\* setTokens(tokenData) when a write fails (lines 38-58): Promise.all has
\* started all three writes, w is the set of those that succeed, and the
\* call throws.
SetTokensFailedAt(e, w) ==
  /\ w # TokenKeys
  /\ expiryItem' = IF "expiry" \in w THEN calculateExpiryTimestamp(now, e.text)
                   ELSE expiryItem
  /\ storedExpiry' = IF "expiry" \in w THEN expiryNumber(now, e.text)
                     ELSE storedExpiry
  /\ store' = [WriteTokens(store, 1, w)
                 EXCEPT !.expiry = ExpiryClass(expiryItem', now)]
  /\ answer' = [NoAnswer EXCEPT !.op = "setTokensFailed", !.at = now,
                                !.input = e.text]
  /\ UNCHANGED << now, advances, nextTok, defaultAuth, httpVars, svc, ctx, nav,
                  interval, calls, hookVars, timerVars, guardVars >>

\* isTokenExpired() (lines 87-103).
IsTokenExpiredAt ==
  /\ \E read \in ReadExpiry :
       answer' = [NoAnswer EXCEPT !.op = "isTokenExpired", !.at = now,
                                  !.threw = read.threw,
                                  !.bool = isTokenExpiredAt(read, now)]
  /\ UNCHANGED << now, expiryItem, storedExpiry, advances, sessionVars, hookVars, timerVars, guardVars >>

\* getTimeUntilExpiry() (lines 197-212).
GetTimeUntilExpiryAt ==
  /\ \E read \in ReadExpiry :
       answer' = [NoAnswer EXCEPT !.op = "getTimeUntilExpiry", !.at = now,
                                  !.threw = read.threw,
                                  !.num = getTimeUntilExpiryAt(read, now)]
  /\ UNCHANGED << now, expiryItem, storedExpiry, advances, sessionVars, hookVars, timerVars, guardVars >>

\* shouldRefreshToken() (auth-service.ts 303-311).
ShouldRefreshTokenAt ==
  /\ \E read \in ReadExpiry :
       answer' = [NoAnswer EXCEPT !.op = "shouldRefreshToken", !.at = now,
                                  !.threw = read.threw,
                                  !.num = getTimeUntilExpiryAt(read, now),
                                  !.bool = shouldRefreshTokenAt(read, now)]
  /\ UNCHANGED << now, expiryItem, storedExpiry, advances, sessionVars, hookVars, timerVars, guardVars >>

\* clearAll() (lines 136-147).
ClearAllAt ==
  /\ expiryItem # NoItem
  /\ expiryItem' = NoItem
  /\ storedExpiry' = NoNumber
  /\ store' = clearAll
  /\ answer' = [NoAnswer EXCEPT !.op = "clearAll", !.at = now]
  /\ UNCHANGED << now, advances, nextTok, defaultAuth, httpVars, svc, ctx, nav,
                  interval, calls, hookVars, timerVars, guardVars >>

\* Time passes.
Advance(d) ==
  /\ advances < MaxAdvance
  /\ now' = now + d
  /\ advances' = advances + 1
  /\ store' = [store EXCEPT !.expiry = ExpiryClass(expiryItem, now')]
  /\ UNCHANGED << expiryItem, storedExpiry, answer, nextTok, defaultAuth, httpVars, svc,
                  ctx, nav, interval, calls, hookVars, timerVars, guardVars >>

\* The clock, with nothing stored.
ClockInit ==
  /\ now = 0
  /\ expiryItem = NoItem
  /\ storedExpiry = NoNumber
  /\ answer = NoAnswer
  /\ advances = 0

(***************************************************************************)
(* The useAuth hook's timers (src/hooks/use-auth.ts)                       *)
(***************************************************************************)
\* setTimeout calls the hook makes, at most.
MaxTimer == 4

\* updateActivity() calls the component makes on its own.
Activities == 1 .. 2

\* options.enableAutoRefresh, at its default (line 103).
enableAutoRefresh == TRUE

Timer(id, kind) == [id |-> id, kind |-> kind]

\* `if (ref.current) clearTimeout(ref.current)`: the timer with that id is
\* no longer pending; null (0), a fired or a cleared id change nothing.
clearTimeout(ts, id) == {t \in ts : t.id # id}

setTimeout(ts, id, kind) == ts \cup {Timer(id, kind)}

TimersOf(kind) == {t \in timeouts : t.kind = kind}

\* The hook after its first render: nothing armed, no call in flight.
IdleAuthHook ==
  [mounted |-> TRUE, nextId |-> 1, login |-> "idle", refresh |-> "idle",
   logout |-> "idle", loggedOut |-> FALSE]

TimerInit ==
  /\ timeouts = {}
  /\ refreshTimeoutRef = 0
  /\ sessionTimeoutRef = 0
  /\ authHook = IdleAuthHook
  /\ activity = [i \in Activities |-> "idle"]

\* The component may start a call: it is mounted and has not called
\* logout().
MayCall == authHook.mounted /\ authHook.logout = "idle"

\* updateActivity() up to `await saveToStorage` (lines 252-260).
UpdateActivity(i) ==
  /\ MayCall
  /\ activity[i] = "idle"
  /\ activity' = [activity EXCEPT ![i] = "saving"]
  /\ UNCHANGED << timeouts, refreshTimeoutRef, sessionTimeoutRef, authHook,
                  guardVars, sessionVars, hookVars, clockVars >>

\* updateActivity() resumes (lines 262-271): the session timeout the ref
\* holds is cleared and a new one armed.
ActivitySaved(i) ==
  /\ activity[i] = "saving"
  /\ authHook.nextId <= MaxTimer
  /\ timeouts' = setTimeout(clearTimeout(timeouts, sessionTimeoutRef),
                            authHook.nextId, "session")
  /\ sessionTimeoutRef' = authHook.nextId
  /\ authHook' = [authHook EXCEPT !.nextId = @ + 1]
  /\ activity' = [activity EXCEPT ![i] = "done"]
  /\ UNCHANGED << refreshTimeoutRef, guardVars, sessionVars, hookVars,
                  clockVars >>

\* scheduleTokenRefresh() (lines 284-304) with the authState.tokens its
\* closure holds, after the timers ts: the timers, the ref and the next id.
scheduleTokenRefresh(hasTokens, ts, ref, id) ==
  IF ~enableAutoRefresh \/ ~hasTokens
  THEN [timeouts |-> ts, ref |-> ref, nextId |-> id]
  ELSE [timeouts |-> setTimeout(clearTimeout(ts, ref), id, "refresh"),
        ref |-> id, nextId |-> id + 1]

\* login() / register() up to `await loginMutation.mutate` (lines 307-329,
\* 362-365).
UseAuthLogin ==
  /\ MayCall
  /\ authHook.login = "idle"
  /\ authHook' = [authHook EXCEPT !.login = "mutating"]
  /\ UNCHANGED << timeouts, refreshTimeoutRef, sessionTimeoutRef, activity,
                  guardVars, sessionVars, hookVars, clockVars >>

\* login() resumes (lines 331-358): with no data in the mutation its closure
\* holds it ends; with data it stores the session and calls updateActivity().
UseAuthLoginSettled ==
  /\ authHook.login = "mutating"
  /\ \E data \in BOOLEAN :
       authHook' = [authHook EXCEPT
                      !.login = IF data THEN "activity" ELSE "done"]
  /\ UNCHANGED << timeouts, refreshTimeoutRef, sessionTimeoutRef, activity,
                  guardVars, sessionVars, hookVars, clockVars >>

\* login()'s updateActivity() resumes and arms the session timeout; login()
\* goes on to scheduleTokenRefresh() (lines 352-355) with the tokens of the
\* render that created it.
UseAuthLoginActivity ==
  /\ authHook.login = "activity"
  /\ authHook.nextId < MaxTimer
  /\ \E hasTokens \in BOOLEAN :
       LET armed == setTimeout(clearTimeout(timeouts, sessionTimeoutRef),
                               authHook.nextId, "session")
           s == scheduleTokenRefresh(hasTokens, armed, refreshTimeoutRef,
                                     authHook.nextId + 1) IN
       /\ timeouts' = s.timeouts
       /\ refreshTimeoutRef' = s.ref
       /\ authHook' = [authHook EXCEPT !.nextId = s.nextId, !.login = "done"]
  /\ sessionTimeoutRef' = authHook.nextId
  /\ UNCHANGED << activity, guardVars, sessionVars, hookVars, clockVars >>

\* The refresh timeout fires (lines 298-301): refreshToken() runs up to
\* `await refreshMutation.mutate` (lines 392-401).
RefreshTimeoutFires ==
  /\ authHook.refresh \in {"idle", "done"}
  /\ \E t \in TimersOf("refresh") :
       timeouts' = timeouts \ {t}
  /\ authHook' = [authHook EXCEPT !.refresh = "mutating"]
  /\ UNCHANGED << refreshTimeoutRef, sessionTimeoutRef, activity, guardVars,
                  sessionVars, hookVars, clockVars >>

\* refreshToken() resumes (lines 403-435): with data in the mutation its
\* closure holds it stores the tokens and calls scheduleTokenRefresh();
\* with none, or after a rejection, it arms nothing.
RefreshTokenSettled ==
  /\ authHook.refresh = "mutating"
  /\ authHook.nextId <= MaxTimer
  /\ \E data \in BOOLEAN, hasTokens \in BOOLEAN :
       LET s == scheduleTokenRefresh(data /\ hasTokens, timeouts,
                                     refreshTimeoutRef, authHook.nextId) IN
       /\ timeouts' = s.timeouts
       /\ refreshTimeoutRef' = s.ref
       /\ authHook' = [authHook EXCEPT !.nextId = s.nextId, !.refresh = "done"]
  /\ UNCHANGED << sessionTimeoutRef, activity, guardVars, sessionVars,
                  hookVars, clockVars >>

\* logout() clears both timeouts (lines 441-447).
logoutTimeouts(ts) ==
  clearTimeout(clearTimeout(ts, refreshTimeoutRef), sessionTimeoutRef)

\* logout() up to its first await: the fetch (line 452), or clearSession's
\* removals when its closure holds no access token (lines 476-478).
UseAuthLogout ==
  /\ MayCall
  /\ timeouts' = logoutTimeouts(timeouts)
  /\ authHook' = [authHook EXCEPT !.logout = "clearing"]
  /\ UNCHANGED << refreshTimeoutRef, sessionTimeoutRef, activity, guardVars,
                  sessionVars, hookVars, clockVars >>

\* logout() returns (line 466).
UseAuthLoggedOut ==
  /\ authHook.logout = "clearing"
  /\ authHook' = [authHook EXCEPT !.logout = "done", !.loggedOut = TRUE]
  /\ UNCHANGED << timeouts, refreshTimeoutRef, sessionTimeoutRef, activity,
                  guardVars, sessionVars, hookVars, clockVars >>

\* The session timeout fires (lines 267-270) and calls logout().
SessionTimeoutFires ==
  /\ \E t \in TimersOf("session") :
       timeouts' = logoutTimeouts(timeouts \ {t})
  /\ authHook' = [authHook EXCEPT
                    !.logout = IF @ = "idle" THEN "clearing" ELSE @]
  /\ UNCHANGED << refreshTimeoutRef, sessionTimeoutRef, activity, guardVars,
                  sessionVars, hookVars, clockVars >>

\* The component unmounts: the cleanup effect (lines 623-635).
Unmount ==
  /\ authHook.mounted
  /\ timeouts' = logoutTimeouts(timeouts)
  /\ authHook' = [authHook EXCEPT !.mounted = FALSE]
  /\ UNCHANGED << refreshTimeoutRef, sessionTimeoutRef, activity, guardVars,
                  sessionVars, hookVars, clockVars >>

(***************************************************************************)
(* Route guards: AuthNavigator (app/_layout) and useProtectedRoute         *)
(***************************************************************************)
Guards == {"AuthNavigator", "useProtectedRoute"}

\* segments[0] of useSegments(); "index" stands for undefined.
Segments == {"index", "auth", "(tabs)"}

NoRedirect == ""

\* What a guard's effect depends on: the context's user and isLoading, the
\* segments, and useProtectedRoute's isNavigating.
Deps ==
  [user |-> ctx.user, segments |-> segments, isLoading |-> ctx.isLoading,
   isNavigating |-> isNavigating]

NoDeps ==
  [user |-> 0, segments |-> "none", isLoading |-> FALSE,
   isNavigating |-> FALSE]

NoTimeout == [user |-> 0, segments |-> "none"]

NoGuardRedirect == [by |-> "none", to |-> NoRedirect, isLoading |-> FALSE]

\* No guard mounted.
GuardIdle ==
  /\ segments = "index"
  /\ guard = "none"
  /\ effectDeps = NoDeps
  /\ isNavigating = FALSE
  /\ navigateTimeout = NoTimeout
  /\ effectCleanup = FALSE
  /\ redirect = NoGuardRedirect

\* The last render's effects have run with the context values and segments
\* of that render.
ContextFlushed ==
  /\ effectDeps.user = ctx.user
  /\ effectDeps.segments = segments
  /\ effectDeps.isLoading = ctx.isLoading

\* router.replace(target) issued by a guard or a screen.
Replace(by, target) ==
  /\ nav' = IF target = NoRedirect THEN nav ELSE target
  /\ segments' = IF target = NoRedirect THEN segments ELSE SegmentOf(target)
  /\ redirect' = IF target = NoRedirect THEN redirect
                 ELSE [by |-> by, to |-> target, isLoading |-> ctx.isLoading]

\* `if (isLoading) return;` (part_003 line 11).
AuthNavigatorWaits(isLoading) == isLoading

\* The redirect AuthNavigator's effect issues (part_003 lines 11-25).
AuthNavigatorTarget(user, seg, isLoading) ==
  IF AuthNavigatorWaits(isLoading) THEN NoRedirect
  ELSE IF user # 0 /\ seg = "auth" THEN "/(tabs)"
  ELSE IF user = 0 /\ seg = "(tabs)" THEN "/auth/login"
  ELSE IF user = 0 /\ seg # "auth" /\ seg # "splash" THEN "/auth/login"
  ELSE NoRedirect

\* AuthNavigator's effect runs after a render that changed user, segments
\* or isLoading (part_003 lines 10-26).
AuthNavigatorEffect ==
  /\ guard = "AuthNavigator"
  /\ effectDeps # Deps
  /\ effectDeps' = Deps
  /\ Replace("AuthNavigator",
             AuthNavigatorTarget(ctx.user, segments, ctx.isLoading))
  /\ UNCHANGED << guard, isNavigating, navigateTimeout, effectCleanup >>
  /\ UNCHANGED << store, nextTok, defaultAuth, httpVars, svc, ctx, interval,
                  calls, timerVars, hookVars, clockVars >>

\* The redirect useProtectedRoute's timeout issues with the user and the
\* segments of the render that armed it (part_007 lines 24-42).
navigateTimeoutTarget(user, seg) ==
  IF user # 0
  THEN (IF seg = "auth" \/ seg = "index" THEN "/(tabs)" ELSE NoRedirect)
  ELSE IF seg = "(tabs)" THEN "/auth/login"
  ELSE IF seg # "auth" /\ seg # "index" /\ seg # "splash"
  THEN "/auth/login"
  ELSE NoRedirect

\* useProtectedRoute's effect runs after a render that changed user,
\* segments, isLoading or isNavigating (part_007 lines 15-49): the cleanup
\* the previous run returned clears its timeout and sets isNavigating false;
\* then, unless the render was loading or navigating, isNavigating is set
\* and a timeout armed.
ProtectedRouteEffect ==
  /\ guard = "useProtectedRoute"
  /\ effectDeps # Deps
  /\ effectDeps' = Deps
  /\ IF ctx.isLoading \/ isNavigating
     THEN /\ isNavigating' = IF effectCleanup THEN FALSE ELSE isNavigating
          /\ navigateTimeout' = IF effectCleanup THEN NoTimeout
                                ELSE navigateTimeout
          /\ effectCleanup' = FALSE
     ELSE /\ isNavigating' = TRUE
          /\ navigateTimeout' = [user |-> ctx.user, segments |-> segments]
          /\ effectCleanup' = TRUE
  /\ UNCHANGED << segments, guard, redirect >>
  /\ UNCHANGED << sessionVars, timerVars, hookVars, clockVars >>

\* The 100 ms timeout fires before a re-render cleared it (part_007 lines
\* 24-42).
NavigateTimeout ==
  /\ navigateTimeout # NoTimeout
  /\ ContextFlushed
  /\ Replace("useProtectedRoute",
             navigateTimeoutTarget(navigateTimeout.user,
                                   navigateTimeout.segments))
  /\ isNavigating' = FALSE
  /\ navigateTimeout' = NoTimeout
  /\ UNCHANGED << guard, effectDeps, effectCleanup >>
  /\ UNCHANGED << store, nextTok, defaultAuth, httpVars, svc, ctx, interval,
                  calls, timerVars, hookVars, clockVars >>

\* IndexScreen's 2 s timer fires (part_001 lines 13-25).
IndexScreenTimer ==
  /\ segments = "index"
  /\ ~ctx.isLoading
  /\ ContextFlushed
  /\ Replace("IndexScreen", IF ctx.user # 0 THEN "/(tabs)" ELSE "/auth/login")
  /\ UNCHANGED << guard, effectDeps, isNavigating, navigateTimeout,
                  effectCleanup >>
  /\ UNCHANGED << store, nextTok, defaultAuth, httpVars, svc, ctx, interval,
                  calls, timerVars, hookVars, clockVars >>

\* The store as an earlier run of the app left it.
InitStores == {EmptyStore, SessionStore(1, "fresh"), SessionStore(1, "expired")}

SessionInit ==
  /\ store \in InitStores
  /\ isRefreshing = FALSE
  /\ failedQueue = << >>
  /\ pc = [r \in Req |-> "idle"]
  /\ retry = [r \in Req |-> FALSE]
  /\ hdr = [r \in Req |-> 0]
  /\ err = [r \in Req |-> NoError]
  /\ body = [r \in Req |-> "none"]
  /\ refreshToken = 0
  /\ newTokens = 0
  /\ refreshError = NoError
  /\ nextTok = 2
  /\ defaultAuth = 0
  /\ svc = IdleSvc
  /\ ctx = initialState
  /\ nav = "/"
  /\ interval = 0
  /\ wasQueued = [r \in Req |-> FALSE]
  /\ relTok = [r \in Req |-> 0]
  /\ cyc = NoCycle
  /\ calls = NoCalls

\* The session with a mutation hook that stays unused.
Init ==
  /\ SessionInit
  /\ HookInit
  /\ retryOption = RetryFalse
  /\ retryDelay = DefaultRetryDelay
  /\ ClockInit
  /\ TimerInit
  /\ GuardIdle

(***************************************************************************)
(* The HTTP client under concurrent application requests                   *)
(***************************************************************************)
HttpNext ==
  \E r \in AppReq : Send(r) \/ HttpStep(r)

SpecHttp == Init /\ [][HttpNext]_vars

(***************************************************************************)
(* The HTTP client under application requests and the service's logout     *)
(* request                                                                 *)
(***************************************************************************)
ReleaseNext ==
  \/ \E r \in AppReq : Send(r) \/ HttpStep(r)
  \/ Call("logout")
  \/ LogoutPosted
  \/ LogoutCleared
  \/ LogoutRemoved
  \/ HttpStep(SvcReq)

SpecRelease == Init /\ [][ReleaseNext]_vars

(***************************************************************************)
(* The auth service called directly, one call at a time                    *)
(***************************************************************************)
AuthNext ==
  \/ \E op \in ServiceOps : Call(op)
  \/ SvcStep
  \/ HttpStep(SvcReq)
  \/ Expire

SpecAuth == Init /\ [][AuthNext]_vars

(***************************************************************************)
(* The provider: bootstrap, its actions and the auto-refresh interval, one *)
(* at a time                                                               *)
(***************************************************************************)
ProviderNext ==
  \/ \E op \in ProviderOps : Call(op)
  \/ SvcStep
  \/ Tick
  \/ TickChecked
  \/ HttpStep(SvcReq)
  \/ Expire

SpecProvider == Init /\ [][ProviderNext]_vars

(***************************************************************************)
(* The provider with clearError called at any moment                       *)
(***************************************************************************)
ContextNext ==
  \/ \E op \in ProviderOps : Call(op)
  \/ SvcStep
  \/ HttpStep(SvcReq)
  \/ Expire
  \/ ClearError

SpecContext == Init /\ [][ContextNext]_vars

(***************************************************************************)
(* The provider's bootstrap and login next to a request that application   *)
(* code sends on its own                                                   *)
(***************************************************************************)
\* The request a screen sends while the provider is mounted.
ScreenReq == 1

SessionNext ==
  \/ Call("ctxInit")
  \/ Call("ctxLogin")
  \/ VerifyHasTokens
  \/ VerifyExpiry
  \/ RefreshRead
  \/ RefreshResponded
  \/ RefreshStored
  \/ RefreshCleared
  \/ MeResponded
  \/ MeStored
  \/ LoginResponded
  \/ LoginStored
  \/ HttpStep(SvcReq)
  \/ Send(ScreenReq)
  \/ HttpStep(ScreenReq)

SpecSession == Init /\ [][SessionNext]_vars

(***************************************************************************)
(* The provider's bootstrap and logout next to a request that application  *)
(* code sends on its own                                                   *)
(***************************************************************************)
SignOutNext ==
  \/ Call("ctxInit")
  \/ VerifyHasTokens
  \/ VerifyExpiry
  \/ RefreshRead
  \/ RefreshResponded
  \/ RefreshStored
  \/ RefreshCleared
  \/ MeResponded
  \/ MeStored
  \/ HttpStep(SvcReq)
  \/ Send(ScreenReq)
  \/ HttpStep(ScreenReq)
  \/ Call("ctxLogout")
  \/ LogoutPosted
  \/ LogoutCleared
  \/ LogoutRemoved

SpecSignOut == Init /\ [][SignOutNext]_vars

(***************************************************************************)
(* Logging in and registering, through the provider or directly, and       *)
(* clearError                                                              *)
(***************************************************************************)
LoginOps == {"login", "register", "ctxInit", "ctxLogin"}

LoginNext ==
  \/ \E op \in LoginOps : Call(op)
  \/ VerifyHasTokens
  \/ VerifyExpiry
  \/ RefreshRead
  \/ RefreshResponded
  \/ RefreshStored
  \/ RefreshCleared
  \/ MeResponded
  \/ MeStored
  \/ LoginResponded
  \/ LoginStored
  \/ HttpStep(SvcReq)
  \/ ClearError

SpecLogin == Init /\ [][LoginNext]_vars

(***************************************************************************)
(* One useApiMutation instance: mutate() calls, their attempts, cancel()   *)
(* and renders                                                             *)
(***************************************************************************)
MutationInit ==
  /\ SessionInit
  /\ store = EmptyStore
  /\ HookInit
  /\ ClockInit
  /\ TimerInit
  /\ GuardIdle
  /\ retryOption \in RetryOptions
  /\ retryDelay = DefaultRetryDelay

MutationNext ==
  \/ Mutate
  \/ FnResolves
  \/ FnRejects
  \/ DelayElapsed
  \/ Cancel
  \/ Render

SpecMutation == MutationInit /\ [][MutationNext]_vars

(***************************************************************************)
(* useAuthMutation: retry 2 with exponential backoff (lines 267-278)       *)
(***************************************************************************)
AuthMutationInit ==
  /\ SessionInit
  /\ store = EmptyStore
  /\ HookInit
  /\ ClockInit
  /\ TimerInit
  /\ GuardIdle
  /\ retryOption = RetryNumber(AuthRetry)
  /\ retryDelay = BackoffDelay

SpecAuthMutation == AuthMutationInit /\ [][MutationNext]_vars

(***************************************************************************)
(* The mutation hook with reset() called at any moment                     *)
(***************************************************************************)
ResetNext ==
  \/ MutationNext
  \/ Reset

SpecReset == MutationInit /\ [][ResetNext]_vars

(***************************************************************************)
(* The token store against the clock                                       *)
(***************************************************************************)
StorageInit ==
  /\ Init
  /\ store = EmptyStore

StorageNext ==
  \/ \E e \in ExpiresIns : SetTokensAt(e)
  \/ IsTokenExpiredAt
  \/ GetTimeUntilExpiryAt
  \/ ShouldRefreshTokenAt
  \/ ClearAllAt
  \/ \E d \in Steps : Advance(d)

SpecStorage == StorageInit /\ [][StorageNext]_vars

(***************************************************************************)
(* The token store under writes that fail part-way                         *)
(***************************************************************************)
\* The expiresIn texts of the backend's token pairs ("15m", "15d").
BackendExpiresIns == {e \in ExpiresIns : e.n = 15 /\ e.unit \in {"m", "d"}}

PartialNext ==
  \/ \E e \in BackendExpiresIns : SetTokensAt(e)
  \/ \E e \in BackendExpiresIns, w \in SUBSET TokenKeys : SetTokensFailedAt(e, w)
  \/ IsTokenExpiredAt
  \/ ClearAllAt
  \/ \E d \in Steps : Advance(d)

SpecPartial == StorageInit /\ [][PartialNext]_vars

(***************************************************************************)
(* Properties of the refresh cycle (SpecHttp)                              *)
(***************************************************************************)
\* The requests of the current (or last) cycle: the one that started the
\* refresh and those queued while isRefreshing was set.
CycleMembers == cyc.members

\* C1: for the requests that receive 401 around one refresh, one call at most
\* goes to the refresh endpoint (exactly one when the refresh succeeds); after
\* a successful refresh every one of them has been replayed carrying the new
\* access token, and after a failed refresh every one of them is rejected.
C1_OneRefreshServesAll ==
  /\ cyc.calls <= 1
  /\ cyc.outcome = "ok" =>
       /\ cyc.calls = 1
       /\ \A m \in CycleMembers : relTok[m] # 0
       /\ \A m \in CycleMembers : pc[m] = "sent" => hdr[m] = relTok[m]
  /\ cyc.outcome = "failed" =>
       \A m \in CycleMembers : pc[m] = "rejected"

\* C2: a request that has sat in failedQueue never becomes the request that
\* runs a refresh (its _retry marker is never set by the refresh branch).
C2_QueuedNeverRefreshes ==
  \A r \in Req : ~(wasQueued[r] /\ retry[r])

\* C3: no queued request waits forever: once nothing is left to run (every
\* request is resolved, rejected or waiting in the queue) no request is
\* waiting in the queue, whether the refresh succeeded or failed.
C3_QueuedSettled ==
  (\A r \in AppReq : pc[r] \in {"resolved", "rejected", "queued"}) =>
    \A r \in AppReq : pc[r] # "queued"

\* The errors a refresh can fail with: no refresh token, the endpoint's
\* rejection or a network failure, success = false, tokens not stored.
RefreshFailures ==
  {PlainError("No refresh token available"),
   PlainError("Refresh token failed"),
   AxiosResponseError(401, "Invalid refresh token"),
   AxiosNetworkError,
   PlainError("Failed to store authentication tokens")}

CanProceed == ENABLED (SvcStep \/ HttpStep(SvcReq))

LogoutCall == svc.op \in {"logout", "ctxLogout"}

C6_ContextLogout ==
  (svc.op = "ctxLogout" /\ svc.at = "done") =>
    /\ ctx.state = "unauthenticated"
    /\ ~ctx.isAuthenticated
    /\ ctx.user = 0
    /\ nav = "/auth/login"

\* The provider's logout() has finished after the server call failed.
C6_Witness ==
  /\ svc.op = "ctxLogout" /\ svc.at = "done"
  /\ svc.error # ""
  /\ ctx.state = "unauthenticated" /\ nav = "/auth/login"

RefreshRejections ==
  {"No refresh token available", "server message", "Unauthorized",
   "No se puede conectar al servidor", "Token refresh failed",
   "Failed to store authentication tokens"}

VerifyDone == svc.op = "verifySession" /\ svc.at = "done"

C9_VerifyNoTokens ==
  [][(svc.op = "verifySession" /\ svc.at = "vs_has" /\ svc' # svc
      /\ (store.access = 0 \/ store.refresh = 0)) =>
       /\ svc'.at = "done" /\ svc'.result = "resolved"
       /\ svc'.value = "false"
       /\ calls' = NoCalls
       /\ pc'[SvcReq] = "idle"
    ]_vars

\* verifySession() returned false with a refresh token but no access token
\* in the store.
C9_Witness ==
  /\ VerifyDone /\ svc.value = "false" /\ svc.hasTokens = "false"
  /\ ~svc.readFault
  /\ store.access = 0 /\ store.refresh # 0
  /\ calls = NoCalls

\* C10: verifySession() always has a next step until it completes, and it
\* completes by resolving to a boolean, never by rejecting, whatever the
\* store reads, the refresh and the current-user fetch do; having read
\* stored, unexpired tokens it makes no refresh call of its own and returns
\* true exactly when getCurrentUser succeeded.
C10_VerifyNeverThrows ==
  /\ (svc.op = "verifySession" /\ svc.at # "done") => CanProceed
  /\ VerifyDone =>
       /\ svc.result = "resolved"
       /\ svc.value \in {"true", "false"}
  /\ (VerifyDone /\ svc.hasTokens = "true" /\ svc.isExpired = "false") =>
       /\ calls.refresh = 0
       /\ calls.me = 1
       /\ svc.value = "true" <=> svc.meOk = "true"

\* verifySession() returned false because the current-user fetch failed on
\* an unexpired session.
C10_Witness ==
  /\ VerifyDone /\ svc.hasTokens = "true" /\ svc.isExpired = "false"
  /\ svc.meOk = "false" /\ svc.value = "false"

(***************************************************************************)
(* Properties of the session context (SpecProvider, SpecSession)           *)
(***************************************************************************)
TokensPresent == store.access # 0 /\ store.refresh # 0

\* C11: status authenticated goes with a non-null user and stored tokens:
\* whenever no provider action is in flight and the status is
\* authenticated, the user is non-null and both tokens are in the store;
\* in particular after an interceptor refresh failure cleared the store.
C11_AuthenticatedHasSession ==
  (SvcIdle /\ ctx.state = "authenticated") =>
    (ctx.user # 0 /\ TokensPresent)

C13_ContextLogin ==
  (svc.op = "ctxLogin" /\ svc.at = "done") =>
    /\ svc.result \in {"resolved", "rejected"}
    /\ svc.settled = svc.result
    /\ svc.result = "resolved" =>
         /\ ctx.state = "authenticated" /\ ctx.isAuthenticated
         /\ svc.user \in Users /\ ctx.user = svc.user
         /\ ctx.error = "" /\ ~ctx.isLoading
    /\ svc.result = "rejected" =>
         /\ ctx.state = "error" /\ ctx.error # "" /\ ctx.error = svc.value
         /\ ctx.isAuthenticated = svc.prevAuth
         /\ ctx.user = svc.prevUser
         /\ ~ctx.isLoading

\* A login attempted while authenticated has failed: the status is error
\* and the user of the earlier login is still there.
C13_Witness ==
  /\ svc.op = "ctxLogin" /\ svc.at = "done" /\ svc.result = "rejected"
  /\ svc.prevAuth /\ svc.prevUser # 0
  /\ ctx.state = "error" /\ ctx.user = svc.prevUser

\* C14: when AuthService.login or register resolves, the four keys hold the
\* values of the response: both tokens, an expiry computed from expiresIn,
\* and the user the backend returned.
C14_LoginStores ==
  [][(svc.op \in {"login", "register"} /\ svc.at = "li_store"
      /\ svc'.at = "done" /\ svc'.result = "resolved") =>
       /\ svc.tokens # 0 /\ svc.user \in Users
       /\ store' = [access |-> svc.tokens, refresh |-> svc.tokens,
                    expiry |-> "fresh", user |-> svc.user]
    ]_vars

\* register resolved over an older session: the store holds the new pair
\* and the new user.
C14_Witness ==
  /\ svc.op = "register" /\ svc.at = "done" /\ svc.result = "resolved"
  /\ svc.user = 2 /\ store.user = 2
  /\ svc.tokens > 1 /\ store.access = svc.tokens /\ store.refresh = svc.tokens

\* C20: one auto-refresh interval is armed exactly while isAuthenticated is
\* true, none otherwise (so it is cleared on leaving and re-armed on
\* re-entering); a tick calls refreshSession once when shouldRefreshToken
\* returned true and not at all when it returned false.
C20_AutoRefresh ==
  /\ interval = IF ctx.isAuthenticated THEN 1 ELSE 0
  /\ svc.op = "tick" =>
       /\ svc.prevAuth
       /\ svc.should = "true" => calls.session = 1
       /\ svc.should = "false" => calls.session = 0 /\ svc.at = "done"
       /\ svc.should = "none" => calls.session = 0 /\ svc.at = "tk_should"

\* A tick found the token close to expiry and its refreshSession ended
\* authenticated, with the interval still armed.
C20_Witness ==
  /\ svc.op = "tick" /\ svc.at = "done" /\ svc.should = "true"
  /\ calls.session = 1 /\ calls.refresh = 1
  /\ ctx.isAuthenticated /\ interval = 1

(***************************************************************************)
(* Properties of useApiMutation (SpecMutation)                             *)
(***************************************************************************)
Started(i) == inv[i].pc \notin {"idle", "ignored"}

\* This step is the one in which mutate() call i completes.
Completes(i) == InFlight(i) /\ inv'[i].pc = "done"

\* C15: with a numeric retry bound n the mutation function is invoked at
\* most n+1 times per mutate() call, with retry=false exactly once; a call
\* that was not cancelled and succeeds on its attempt k+1 leaves the state
\* in success with attemptCount = k+1, and one that ends in failure has made
\* n+1 attempts and leaves the state in error.
C15_RetryBound ==
  /\ [](\A i \in Inv :
          /\ ~retryOption.boolean => inv[i].fnCalls <= retryOption.n + 1
          /\ (retryOption = RetryFalse /\ Started(i)) => inv[i].fnCalls = 1)
  /\ [][\A i \in Inv :
          (Completes(i) /\ ~inv[i].cancelled) =>
            /\ inv'[i].result = "resolved" =>
                 /\ state'.isSuccess
                 /\ state'.attemptCount = inv[i].attempt
            /\ inv'[i].result = "rejected" =>
                 /\ state'.isError
                 /\ ~retryOption.boolean => inv[i].attempt = retryOption.n + 1
       ]_vars

\* C16: once cancel() was called while a mutate() call was in flight, that
\* call never again invokes the mutation function, writes its result or
\* error to the state, or calls onSuccess, onError or onSettled.
C16_CancelSilences ==
  [][\A i \in Inv :
       inv[i].cancelled =>
         /\ inv'[i].fnCalls = inv[i].fnCalls
         /\ inv'[i].wrote = inv[i].wrote
         /\ inv'[i].onSuccess = inv[i].onSuccess
         /\ inv'[i].onError = inv[i].onError
         /\ inv'[i].onSettled = inv[i].onSettled
    ]_vars

\* C17: a mutate() call made while an earlier call is pending (in flight
\* and not cancelled) is a no-op: the state is unchanged and the mutation
\* function is not invoked for it.
C17_SecondMutateNoOp ==
  [][\A i \in Inv :
       (/\ inv[i].pc = "idle" /\ inv'[i].pc # "idle"
        /\ \E j \in Inv : InFlight(j) /\ ~inv[j].cancelled) =>
         /\ inv'[i].pc = "ignored"
         /\ inv'[i].fnCalls = 0
         /\ state' = state
    ]_vars

\* C18: every mutate() call that is not ignored applies optimisticUpdate
\* exactly once, with its first attempt; revertOptimisticUpdate is not called
\* while the call is in flight (so not between retries) nor when it
\* succeeded, at most once, and only for a failure after which no retry
\* was due; a call that was not cancelled and failed has reverted exactly
\* once.
C18_OptimisticRevert ==
  \A i \in Inv :
    /\ ~Started(i) => (inv[i].optimistic = 0 /\ inv[i].revert = 0
                       /\ inv[i].fnCalls = 0)
    /\ Started(i) => (inv[i].optimistic = 1 /\ inv[i].fnCalls >= 1)
    /\ InFlight(i) => inv[i].revert = 0
    /\ inv[i].result = "resolved" => inv[i].revert = 0
    /\ inv[i].revert <= 1
    /\ inv[i].revert = 1 =>
         (inv[i].pc = "done" /\ inv[i].result = "rejected"
          /\ ~ShouldRetry(inv[i].attempt))
    /\ (inv[i].pc = "done" /\ inv[i].result = "rejected"
        /\ ~inv[i].cancelled) => inv[i].revert = 1

\* With retry 2, a call has failed three times and reverted its optimistic
\* update once.
C18_Witness ==
  \E i \in Inv :
    /\ retryOption = RetryNumber(2)
    /\ inv[i].pc = "done" /\ inv[i].result = "rejected" /\ ~inv[i].cancelled
    /\ inv[i].attempt = 3 /\ inv[i].fnCalls = 3
    /\ inv[i].optimistic = 1 /\ inv[i].revert = 1

\* C19: onError is called at most once per mutate() call, never while the
\* call is in flight, and with the error of the call's last attempt; a call
\* that was not cancelled and failed has called it once, and the step in
\* which it fails writes that same error to state.error.
C19_LastError ==
  /\ [](\A i \in Inv :
          /\ inv[i].onError <= 1
          /\ InFlight(i) => inv[i].onError = 0
          /\ inv[i].onError = 1 =>
               /\ inv[i].pc = "done" /\ inv[i].result = "rejected"
               /\ inv[i].onErrorArg = AttemptError(inv[i].attempt)
               /\ inv[i].fnCalls = inv[i].attempt
               /\ ~ShouldRetry(inv[i].attempt)
          /\ (inv[i].pc = "done" /\ inv[i].result = "rejected"
              /\ ~inv[i].cancelled) => inv[i].onError = 1)
  /\ [][\A i \in Inv :
          (Completes(i) /\ ~inv[i].cancelled /\ inv'[i].result = "rejected")
            => (state'.error = AttemptError(inv[i].attempt)
                /\ state'.error = inv'[i].onErrorArg)
       ]_vars

\* With retry 2, a call failed three times: onError was called once with
\* the third error, which is also the one in the state.
C19_Witness ==
  \E i \in Inv :
    /\ retryOption = RetryNumber(2)
    /\ inv[i].pc = "done" /\ inv[i].result = "rejected" /\ ~inv[i].cancelled
    /\ inv[i].onError = 1 /\ inv[i].onErrorArg = AttemptError(3)
    /\ state.error = AttemptError(3) /\ state.isError

(***************************************************************************)
(* Further properties of the session context (SpecProvider)                *)
(***************************************************************************)
\* refreshSession has run to its end, called directly or by a tick.
RefreshSessionDone ==
  svc.op \in SessionRefreshOps /\ calls.session = 1 /\ svc.at = "done"

\* C21: refreshSession always has a next step until it completes; it
\* completes without throwing, with error null and isLoading false, in
\* status authenticated with the user getCurrentUser returned when both
\* refreshTokens and getCurrentUser resolved, and in status unauthenticated
\* with user null otherwise.
C21_RefreshSession ==
  /\ (svc.op \in SessionRefreshOps /\ calls.session = 1
      /\ svc.at # "done") => CanProceed
  /\ RefreshSessionDone =>
       /\ svc.settled = "resolved"
       /\ ctx.state \in {"authenticated", "unauthenticated"}
       /\ ctx.error = "" /\ ~ctx.isLoading /\ ctx.isInitialized
       /\ ctx.state = "authenticated" <=>
            (svc.refreshOk = "true" /\ svc.meOk = "true")
       /\ ctx.state = "authenticated" =>
            (ctx.isAuthenticated /\ svc.user \in Users /\ ctx.user = svc.user)
       /\ ctx.state = "unauthenticated" =>
            (~ctx.isAuthenticated /\ ctx.user = 0 /\ svc.result = "rejected")

\* refreshSession refreshed the tokens, the profile fetch failed, and the
\* user who was authenticated is now unauthenticated with no error.
C21_Witness ==
  /\ svc.op = "ctxRefresh" /\ RefreshSessionDone
  /\ svc.prevAuth /\ svc.refreshOk = "true" /\ svc.meOk = "false"
  /\ ctx.state = "unauthenticated" /\ ctx.error = "" /\ ctx.user = 0

(***************************************************************************)
(* Properties of login, register and clearError (SpecLogin, SpecAuth)      *)
(***************************************************************************)
\* C22: a clearError() step sets error to null and the status to
\* authenticated when isAuthenticated is true and to unauthenticated
\* otherwise; user, isAuthenticated, isLoading and isInitialized keep their
\* values, no request is sent and the store, the service call in progress
\* and its network calls are untouched.
C22_ClearError ==
  [][ClearError =>
       /\ ctx'.error = ""
       /\ ctx'.state = IF ctx.isAuthenticated THEN "authenticated"
                       ELSE "unauthenticated"
       /\ ctx'.user = ctx.user
       /\ ctx'.isAuthenticated = ctx.isAuthenticated
       /\ ctx'.isLoading = ctx.isLoading
       /\ ctx'.isInitialized = ctx.isInitialized
       /\ UNCHANGED << store, httpVars, svc, calls, nextTok, defaultAuth >>
    ]_vars

\* A login attempted while authenticated failed (status error); after
\* clearError the status is authenticated again, with the same user and no
\* other call made.
C22_Witness ==
  /\ svc.op = "ctxLogin" /\ svc.at = "done" /\ svc.result = "rejected"
  /\ svc.prevAuth /\ svc.prevUser # 0
  /\ ctx.state = "authenticated" /\ ctx.error = ""
  /\ ctx.isAuthenticated /\ ctx.user = svc.prevUser

\* The step in which the call moves on from its postPublic request.
PublicAnswered ==
  svc.at \in {"li_call", "rt_call"} /\ svc'.at # svc.at

\* C23: a request made through postPublic carries no Authorization header,
\* whatever the store and the client's default headers hold, and the step
\* that takes its answer (a 401 included) starts no refresh cycle, queues
\* nothing and sends nothing through the interceptors.
C23_PublicUnauthenticated ==
  /\ [](svc.pubHdr = 0)
  /\ [][PublicAnswered =>
          /\ isRefreshing' = isRefreshing
          /\ failedQueue' = failedQueue
          /\ cyc' = cyc
          /\ pc' = pc /\ hdr' = hdr /\ retry' = retry
       ]_vars

\* login was answered 401 while the store held a session's tokens: it
\* rejected with the body's message and no refresh cycle ever ran.
C23_Witness ==
  /\ svc.op = "login" /\ svc.at = "done" /\ svc.result = "rejected"
  /\ svc.value = "Unauthorized" /\ svc.pubHdr = 0
  /\ store.access # 0
  /\ ~isRefreshing /\ failedQueue = << >> /\ cyc = NoCycle

\* C24: when a write of setTokens or setUserData fails in login or
\* register, the AuthService call rejects with the storage error; the
\* context's login then rejects too and leaves the status at error, with
\* isAuthenticated and user as they were.
C24_WriteFailurePropagates ==
  [][(svc.at = "li_store" /\ svc'.at = "done" /\ svc'.writeFault) =>
       /\ svc'.result = "rejected" /\ svc'.settled = "rejected"
       /\ svc'.value \in {"Failed to store authentication tokens",
                          "Failed to store user data"}
       /\ svc.op = "ctxLogin" =>
            /\ ctx'.state = "error" /\ ctx'.error = svc'.value
            /\ ctx'.isAuthenticated = svc.prevAuth
            /\ ctx'.user = svc.prevUser
       /\ svc.op # "ctxLogin" => ctx' = ctx
    ]_vars

\* The context's login failed on the write of the user: the status is
\* error although the new tokens are in the store.
C24_Witness ==
  /\ svc.op = "ctxLogin" /\ svc.at = "done" /\ svc.writeFault
  /\ svc.value = "Failed to store user data"
  /\ store.access = svc.tokens /\ store.refresh = svc.tokens
  /\ ctx.state = "error" /\ ~ctx.isAuthenticated

(***************************************************************************)
(* Properties of the two refresh paths (SpecAuth, SpecSession)             *)
(***************************************************************************)
\* C29: when the interceptor, after a 401, reads the refresh token from a
\* store that holds none, it makes no call to the refresh endpoint and goes
\* on to reject the request with "No refresh token available"; when
\* AuthService.refreshTokens reads it from such a store, it makes no
\* network call and, called directly, rejects with that message.
C29_NoRefreshToken ==
  [][/\ \A r \in Req :
          /\ (pc[r] = "awaitRefreshToken" /\ pc'[r] # pc[r]
              /\ store.refresh = 0) =>
               /\ pc'[r] = "awaitClearAll"
               /\ cyc'.calls = 0
               /\ refreshError' = PlainError("No refresh token available")
          /\ (pc[r] = "awaitClearAll" /\ pc'[r] # pc[r]) =>
               /\ pc'[r] = "rejected"
               /\ err'[r] = handleError(refreshError)
               /\ cyc'.calls = cyc.calls
     /\ (svc.at = "rt_read" /\ svc'.at # svc.at /\ store.refresh = 0) =>
          /\ svc'.at = "rt_clear"
          /\ svc'.error = "No refresh token available"
          /\ calls'.refresh = 0
          /\ pc' = pc
     /\ (svc.op = "refreshTokens" /\ svc.at = "rt_clear"
         /\ svc'.at # svc.at) =>
          /\ svc'.at = "done" /\ svc'.settled = "rejected"
          /\ svc'.value = svc.error
          /\ calls' = calls
          /\ pc' = pc
    ]_vars

\* A request sent with an empty store was answered 401; the interceptor
\* found no refresh token, called nothing and rejected the request.
C29_Witness ==
  /\ pc[SvcReq] = "rejected"
  /\ err[SvcReq].message = "No refresh token available"
  /\ cyc.outcome = "failed" /\ cyc.calls = 0
  /\ store = EmptyStore

\* Calls to the refresh endpoint that are in flight.
RefreshCallsInFlight ==
  Cardinality({r \in Req : pc[r] = "awaitRefresh"})
    + (IF svc.at = "rt_call" THEN 1 ELSE 0)

\* Writers of the token record that are in flight.
TokenWritersInFlight ==
  Cardinality({r \in Req : pc[r] = "awaitSetTokens"})
    + (IF svc.at = "rt_store" THEN 1 ELSE 0)

\* C30: counting the interceptor's refresh and AuthService.refreshTokens, at
\* most one call to the refresh endpoint is in flight, and at most one
\* refresh is writing the token record.
C30_OneRefreshInFlight ==
  /\ RefreshCallsInFlight <= 1
  /\ TokenWritersInFlight <= 1
  /\ RefreshCallsInFlight + TokenWritersInFlight <= 1

(***************************************************************************)
(* Properties of the expiry arithmetic (SpecStorage)                       *)
(***************************************************************************)
\* C25: isTokenExpired() answers true exactly when no expiry is stored or
\* now + 60000 >= the stored expiry, and false otherwise (a read of the
\* item that throws is answered as if nothing were stored).
C25_IsTokenExpired ==
  answer.op = "isTokenExpired" =>
    IF answer.threw THEN answer.bool
    ELSE answer.bool <=>
           (expiryItem = NoItem \/ answer.at + 60000 >= storedExpiry.v)

\* isTokenExpired() answered true with the stored expiry exactly 60000 ms
\* ahead of the clock.
C25_Witness ==
  /\ answer.op = "isTokenExpired" /\ ~answer.threw
  /\ expiryItem # NoItem
  /\ storedExpiry.v - answer.at = 60000
  /\ answer.bool

\* Milliseconds of the four units.
UnitMillis(u) ==
  CASE u = "s" -> 1000
    [] u = "m" -> 60000
    [] u = "h" -> 3600000
    [] u = "d" -> 86400000

\* C26: after setTokens with expiresIn = n followed by s, m, h or d, the
\* stored expiry is the decimal text of now + n * unitMillis; with any
\* other final character it is that of now + 15 minutes.
C26_CalculateExpiry ==
  answer.op = "setTokens" =>
    \A e \in ExpiresIns :
      answer.input = e.text =>
        LET expected == answer.at + (IF e.unit = "other" THEN 15 * 60000
                                     ELSE e.n * UnitMillis(e.unit))
        IN  /\ \A i \in 1 .. Len(expiryItem) : IsDigit(expiryItem[i])
            /\ parseInt(expiryItem) = Num(expected)
            /\ storedExpiry = Num(expected)

\* setTokens stored an expiry of fifteen days, at a clock that had advanced.
C26_Witness ==
  /\ answer.op = "setTokens"
  /\ answer.input = << "1", "5", "d" >>
  /\ answer.at > 0
  /\ parseInt(expiryItem) = Num(answer.at + 1296000000)

\* The whole minutes from the clock to the stored expiry, never negative.
MinutesUntil(expiry, at) ==
  IF expiry < at THEN 0 ELSE (expiry - at) \div 60000

\* C27: getTimeUntilExpiry() answers floor((storedExpiry - now) / 60000),
\* or 0 if that is negative or no expiry is stored (or its read throws), and
\* shouldRefreshToken() answers true exactly when that value is below 5.
C27_TimeUntilExpiry ==
  answer.op \in {"getTimeUntilExpiry", "shouldRefreshToken"} =>
    /\ answer.num = Num(IF answer.threw THEN 0
                        ELSE IF expiryItem = NoItem THEN 0
                        ELSE MinutesUntil(storedExpiry.v, answer.at))
    /\ answer.op = "shouldRefreshToken" => (answer.bool <=> answer.num.v < 5)

\* shouldRefreshToken() answered with the stored expiry already past.
C27_Witness ==
  /\ answer.op = "shouldRefreshToken" /\ ~answer.threw
  /\ expiryItem # NoItem
  /\ storedExpiry.v < answer.at
  /\ answer.num = Num(0) /\ answer.bool

(***************************************************************************)
(* Properties of a successful refresh cycle (SpecRelease)                  *)
(***************************************************************************)
\* The step in which request r, having refreshed and stored the tokens,
\* is replayed.
Replayed(r) == pc[r] = "awaitSetTokens" /\ pc'[r] = "reqInt"

\* C28: in the step that ends a successful refresh cycle the store already
\* holds the new tokens, every request waiting in the queue is released, in
\* queue order, with the new access token, and the original request is
\* replayed with that same token; a queued request is released with a token
\* in no other step.
C28_ReleaseAfterStore ==
  [][\A r \in Req :
       /\ Replayed(r) =>
            /\ newTokens # 0
            /\ store'.access = newTokens /\ store'.refresh = newTokens
            /\ hdr'[r] = newTokens /\ relTok'[r] = newTokens
            /\ \A q \in Req : pc[q] = "queued" => q \in QueuedSet
            /\ \A q \in QueuedSet :
                 /\ pc[q] = "queued" /\ pc'[q] = "reqInt"
                 /\ hdr'[q] = newTokens /\ relTok'[q] = newTokens
            /\ cyc'.released = failedQueue
            /\ failedQueue' = << >>
            /\ cyc'.outcome = "ok"
       /\ (pc[r] = "queued" /\ pc'[r] = "reqInt") =>
            \E o \in Req : Replayed(o) /\ store'.access = hdr'[r]
    ]_vars

\* A cycle has just ended well with two requests in its queue: both, and
\* the original, wait to be sent with the token now in the store.
C28_Witness ==
  /\ cyc.outcome = "ok"
  /\ Len(cyc.released) = 2
  /\ \A q \in cyc.members : pc[q] = "reqInt" /\ hdr[q] = store.access
  /\ Cardinality(cyc.members) = 3

(***************************************************************************)
(* Invariants of the session context (SpecContext)                         *)
(***************************************************************************)
\* C37: isLoading is true if and only if the status is loading.
C37_LoadingIffStatus ==
  ctx.isLoading <=> ctx.state = "loading"

\* C38: under bootstrap, login, logout, refreshSession, checkAuthStatus and
\* clearError, isAuthenticated is true if and only if user is non-null, and
\* status authenticated implies isAuthenticated.
C38_AuthenticatedIffUser ==
  /\ ctx.isAuthenticated <=> ctx.user # 0
  /\ ctx.state = "authenticated" => ctx.isAuthenticated

\* checkAuthStatus, called from an unauthenticated render, found a valid
\* session and fetched the user.
C38_Witness ==
  /\ svc.op = "ctxCheck" /\ svc.at = "done"
  /\ ~svc.prevAuth
  /\ ctx.isAuthenticated /\ ctx.user # 0 /\ ctx.state = "authenticated"

(***************************************************************************)
(* Invariant of the refresh queue (SpecHttp)                               *)
(***************************************************************************)
\* C35: whenever isRefreshing is false the queue of requests waiting for a
\* refresh is empty.
C35_QueueEmptyWhenIdle ==
  (~isRefreshing) => failedQueue = << >>

(***************************************************************************)
(* Partial writes of the token record (SpecPartial)                        *)
(***************************************************************************)
\* C34: whenever the store holds an access and a refresh token and no
\* expiry, as a setTokens that failed part-way can leave it,
\* isTokenExpired() answers true.
C34_NoExpiryIsExpired ==
  (/\ answer.op = "isTokenExpired"
   /\ store.access # 0 /\ store.refresh # 0
   /\ expiryItem = NoItem) => answer.bool

\* isTokenExpired() read a store in which setTokens had written both tokens
\* and failed to write the expiry.
C34_Witness ==
  /\ answer.op = "isTokenExpired" /\ ~answer.threw
  /\ store.access # 0 /\ store.refresh # 0
  /\ expiryItem = NoItem /\ store.expiry = "none"
  /\ answer.bool

(***************************************************************************)
(* Logout next to a refresh in flight (SpecSignOut)                        *)
(***************************************************************************)
\* C36: once the provider's logout() has completed, and until the next
\* call of a provider action, the store holds no access and no refresh
\* token.
C36_LoggedOutStoreEmpty ==
  (svc.op = "ctxLogout" /\ svc.at = "done") =>
    (store.access = 0 /\ store.refresh = 0)

(***************************************************************************)
(* The status flags of useApiMutation (SpecReset)                          *)
(***************************************************************************)
\* The status flags of the hook's state that are true.
FlagsSet ==
  {f \in {"isIdle", "isLoading", "isSuccess", "isError"} : state[f]}

\* C39: exactly one of isIdle, isLoading, isSuccess, isError is true.
C39_OneStatusFlag ==
  Cardinality(FlagsSet) = 1

(***************************************************************************)
(* mutateAsync (SpecMutation)                                              *)
(*                                                                         *)
(* Every mutate() call of the model is taken as made through mutateAsync   *)
(* of the same render; inv[i].async is the promise mutateAsync returned.   *)
(***************************************************************************)
\* C40: once mutate() has completed, the promise of mutateAsync is settled:
\* resolved with the data of that mutation when it succeeded, rejected with
\* its final error when it failed after retries.
C40_MutateAsyncSettles ==
  \A i \in Inv :
    (inv[i].pc = "done" /\ ~inv[i].cancelled) =>
      /\ inv[i].result = "resolved" =>
           (inv[i].async.settled = "resolved" /\ inv[i].async.data = Result)
      /\ inv[i].result = "rejected" =>
           (/\ inv[i].async.settled = "rejected"
            /\ inv[i].async.error = FinalError(inv[i].attempt))

(***************************************************************************)
(* Retry delays of useAuthMutation (SpecAuthMutation)                      *)
(***************************************************************************)
\* min(1000 * 2^(k-1), 5000) for the k-th retry.
BackoffOfRetry(k) ==
  CASE k = 1 -> 1000
    [] k = 2 -> 2000
    [] k = 3 -> 4000
    [] OTHER -> 5000

\* C33: in useAuthMutation the delay waited before the k-th retry is
\* min(1000 * 2^(k-1), 5000) ms, and there are at most two retries: 1000,
\* then 2000.
C33_BackoffDelays ==
  \A i \in Inv :
    /\ Len(inv[i].delays) <= 2
    /\ \A k \in 1 .. Len(inv[i].delays) : inv[i].delays[k] = BackoffOfRetry(k)
    /\ inv[i].pc = "delay" => Len(inv[i].delays) = inv[i].attempt

\* A mutation has failed three times: it waited 1000 ms, then 2000 ms, and
\* gave up.
C33_Witness ==
  \E i \in Inv :
    /\ inv[i].pc = "done" /\ inv[i].result = "rejected"
    /\ inv[i].fnCalls = 3
    /\ inv[i].delays = << 1000, 2000 >>

(***************************************************************************)
(* The useAuth hook's timers under calls that overlap                      *)
(***************************************************************************)
TimerNext ==
  \/ \E i \in Activities : UpdateActivity(i)
  \/ \E i \in Activities : ActivitySaved(i)
  \/ UseAuthLogin
  \/ UseAuthLoginSettled
  \/ UseAuthLoginActivity
  \/ RefreshTimeoutFires
  \/ RefreshTokenSettled
  \/ UseAuthLogout
  \/ UseAuthLoggedOut
  \/ SessionTimeoutFires
  \/ Unmount

SpecTimers == Init /\ [][TimerNext]_vars

\* Each timer of the hook has at most one pending instance.
OneTimerEach ==
  /\ Cardinality(TimersOf("refresh")) <= 1
  /\ Cardinality(TimersOf("session")) <= 1

\* An updateActivity() call was awaiting its save when logout() ran, and the
\* session timeout it armed afterwards is pending once logout() returned.
ArmedAfterLogout ==
  /\ authHook.loggedOut
  /\ authHook.mounted
  /\ authHook.login = "idle"
  /\ TimersOf("session") # {}

\* The same after the component unmounted.
ArmedAfterUnmount ==
  /\ ~authHook.mounted
  /\ authHook.logout = "idle"
  /\ authHook.login = "idle"
  /\ timeouts # {}

\* C31: each of the two timers of useAuth has at most one pending instance,
\* and none is pending once logout() has returned or the component has
\* unmounted.
C31_TimersSingleAndCleared ==
  /\ OneTimerEach
  /\ (authHook.loggedOut \/ ~authHook.mounted) => timeouts = {}

(***************************************************************************)
(* The provider's bootstrap, refreshSession and auto-refresh under a route *)
(* guard                                                                   *)
(***************************************************************************)
\* A guard is mounted at the index route; its effect has yet to run.
GuardMounted ==
  /\ segments = "index"
  /\ guard \in Guards
  /\ effectDeps = NoDeps
  /\ isNavigating = FALSE
  /\ navigateTimeout = NoTimeout
  /\ effectCleanup = FALSE
  /\ redirect = NoGuardRedirect

GuardInit ==
  /\ SessionInit
  /\ HookInit
  /\ retryOption = RetryFalse
  /\ retryDelay = DefaultRetryDelay
  /\ ClockInit
  /\ TimerInit
  /\ GuardMounted

\* An event (a call of application code, a tick of the interval) is handled
\* once the effects of the last render have run.
GuardNext ==
  \/ ContextFlushed /\ Call("ctxInit")
  \/ ContextFlushed /\ Call("ctxRefresh")
  \/ ContextFlushed /\ Tick
  \/ TickChecked
  \/ VerifyHasTokens
  \/ VerifyExpiry
  \/ RefreshRead
  \/ RefreshResponded
  \/ RefreshStored
  \/ RefreshCleared
  \/ MeResponded
  \/ MeStored
  \/ HttpStep(SvcReq)
  \/ Expire
  \/ IndexScreenTimer
  \/ AuthNavigatorEffect
  \/ ProtectedRouteEffect
  \/ NavigateTimeout

\* What happens without the user: the storage and the backend answer.
Answers ==
  \/ TickChecked
  \/ VerifyHasTokens
  \/ VerifyExpiry
  \/ RefreshRead
  \/ RefreshResponded
  \/ RefreshStored
  \/ RefreshCleared
  \/ MeResponded
  \/ MeStored
  \/ HttpStep(SvcReq)

\* A call in flight is answered; a pending effect runs; an armed timeout
\* fires unless it is cleared.
SpecGuard ==
  /\ GuardInit
  /\ [][GuardNext]_vars
  /\ WF_vars(Answers)
  /\ WF_vars(AuthNavigatorEffect)
  /\ WF_vars(ProtectedRouteEffect)
  /\ WF_vars(NavigateTimeout)

\* refreshSession (called by application code or by the interval) has
\* failed: refreshTokens or getCurrentUser rejected.
SessionExpired ==
  /\ svc.op \in SessionRefreshOps
  /\ svc.at = "done"
  /\ svc.result = "rejected"

\* The guard has sent the user to the login screen.
RedirectedToLogin ==
  /\ redirect.by \in Guards
  /\ redirect.to = "/auth/login"
  /\ nav = "/auth/login"
  /\ segments = "auth"

\* After a failed refreshSession the context is unauthenticated, with no
\* user and no error.
ExpiredIsSilent ==
  SessionExpired =>
    /\ ctx.state = "unauthenticated"
    /\ ~ctx.isAuthenticated
    /\ ctx.user = 0
    /\ ctx.error = ""

\* No guard has redirected while the context was loading.
NoRedirectWhileLoading == redirect.by \in Guards => ~redirect.isLoading

\* With AuthNavigator mounted, a session that expires on a (tabs) route is
\* followed by the redirect to /auth/login.
NavigatorExpiryRedirects ==
  (guard = "AuthNavigator" /\ SessionExpired /\ segments = "(tabs)")
    ~> RedirectedToLogin

\* useProtectedRoute is mounted, the session has expired on a (tabs) route
\* and the hook has armed its timeout for the redirect.
ProtectedRouteArmed ==
  /\ guard = "useProtectedRoute"
  /\ SessionExpired
  /\ segments = "(tabs)"
  /\ navigateTimeout = [user |-> 0, segments |-> "(tabs)"]

\* C32: when refreshSession fails while the user is on a (tabs) route the
\* context becomes unauthenticated with user null and error null, the route
\* guard then redirects to /auth/login, and no guard redirects while
\* isLoading is true.
C32_ExpiryRedirects ==
  /\ []ExpiredIsSilent
  /\ []NoRedirectWhileLoading
  /\ (SessionExpired /\ segments = "(tabs)") ~> RedirectedToLogin

====
